---- MODULE Spec2Model ----
(***************************************************************************)
(* Model of the client search controller of FreeDevTools                   *)
(* (frontend/src/components/SearchPage.tsx): the React state of the        *)
(* SearchPage component, its effects, its event handlers, the debounce     *)
(* timer and the search requests in flight.                                *)
(*                                                                         *)
(* A handler and the effects React runs after the render it causes are one *)
(* atomic step.  A query is a sequence of one-character strings.  A hit    *)
(* list is a sequence of segments: the segment [q, cats, lo, hi] stands    *)
(* for the documents ranked lo..hi by the service for query q under the    *)
(* category filter cats, in ranking order.                                 *)
(***************************************************************************)
EXTENDS Integers, Sequences, FiniteSets, Bags, TLC

VARIABLES query, results, allResults, searchInfo, loading, loadingMore,
          activeCategory, selectedCategories, currentPage,
          availableCategories, timer, inflight, docs, urlHash, crashed,
          searchState, keyDown,
          buildPc, cluster, clusterIndex, fileIndex, svgIconsData,
          iconPath, iconID, ctxDone, outputFile, stemRuns, exitError

\* window.searchState, the query shared with the search box of the page,
\* and a bit that every keydown event on the document flips
windowVars == <<searchState, keyDown>>

\* the state of the search page and of the search service; urlHash is
\* window.location.hash, crashed tells that an error thrown in an effect
\* has unmounted the component
pageVars == <<query, results, allResults, searchInfo, loading, loadingMore,
              activeCategory, selectedCategories, currentPage,
              availableCategories, timer, inflight, docs, urlHash, crashed,
              windowVars>>

\* the state of a run of the index builder outside generateSVGIconsData:
\* whether the context is cancelled, the output file, the number of
\* stemming passes over it, and the error the run was aborted with
runVars == <<ctxDone, outputFile, stemRuns, exitError>>

\* the state of the index builder: its position, the parsed cluster file,
\* the loop indices, the documents built so far, and the path and id of
\* the last call of generateIconIDFromPath
buildVars == <<buildPc, cluster, clusterIndex, fileIndex, svgIconsData,
               iconPath, iconID, runVars>>

vars == <<pageVars, buildVars>>

(***************************************************************************)
(* Bounds of the model.                                                    *)
(***************************************************************************)
MaxInFlight == 2
MaxDocs == 310
MaxPageIn == 4

(***************************************************************************)
(* Program constants.                                                      *)
(***************************************************************************)
PageSize == 100

(***************************************************************************)
(* Value spaces.                                                           *)
(***************************************************************************)
Queries == {<<>>, <<" ">>, <<"a">>, <<"b">>}

Categories == {"tools", "emoji"}

\* the category buttons used where the selection itself is examined
UICategories == {"tools", "tldr", "emoji"}

StoredCategories == {"tools", "emojis"}

NoInfo == [isNull |-> TRUE, totalHits |-> 0, facetTotal |-> 0]

\* the delay of the debounce timer, in ms
DebounceMs == 300

\* left: the time until the pending timer is due
NoTimer == [set |-> FALSE, q |-> <<>>, cats |-> <<>>, left |-> 0]

NoCounts == [c \in {} |-> 0]

(***************************************************************************)
(* String.prototype.trim, used as query.trim().                            *)
(***************************************************************************)
RECURSIVE TrimStart(_)
TrimStart(s) ==
  IF s = <<>> THEN <<>>
  ELSE IF Head(s) = " " THEN TrimStart(Tail(s)) ELSE s

RECURSIVE TrimEnd(_)
TrimEnd(s) ==
  IF s = <<>> THEN <<>>
  ELSE IF s[Len(s)] = " " THEN TrimEnd(SubSeq(s, 1, Len(s) - 1)) ELSE s

Trim(s) == TrimEnd(TrimStart(s))

RECURSIVE SumOver(_, _)
SumOver(f, S) ==
  IF S = {} THEN 0
  ELSE LET c == CHOOSE x \in S : TRUE IN f[c] + SumOver(f, S \ {c})

Range(s) == {s[i] : i \in 1..Len(s)}

Min(a, b) == IF a < b THEN a ELSE b

HasPrefix(s, prefix) ==
  Len(s) >= Len(prefix) /\ SubSeq(s, 1, Len(prefix)) = prefix

HasSuffix(s, suffix) ==
  Len(s) >= Len(suffix) /\ SubSeq(s, Len(s) - Len(suffix) + 1, Len(s)) = suffix

(***************************************************************************)
(* The URL fragment.  A JavaScript string is a sequence of UTF-16 code     *)
(* units: an ASCII unit is written as its character, any other unit as its *)
(* four hex digits (00E9 is e-acute, D83D DE00 the surrogate pair of       *)
(* U+1F600, FFFD the replacement character).                               *)
(***************************************************************************)
HighSurrogates == {"D83D"}

LowSurrogates == {"DE00"}

\* no surrogate without its partner
RECURSIVE WellFormed(_)
WellFormed(s) ==
  IF s = <<>> THEN TRUE
  ELSE IF s[1] \in HighSurrogates
  THEN Len(s) >= 2 /\ s[2] \in LowSurrogates /\ WellFormed(SubSeq(s, 3, Len(s)))
  ELSE s[1] \notin LowSurrogates /\ WellFormed(Tail(s))

\* the characters encodeURIComponent leaves as they are
URIUnreserved ==
  {"a", "b", "c", "d", "e", "f", "g", "h", "i", "j", "k", "l", "m", "n", "o", "p",
   "q", "r", "s", "t", "u", "v", "w", "x", "y", "z",
   "A", "B", "C", "D", "E", "F", "G", "H", "I", "J", "K", "L", "M", "N", "O", "P",
   "Q", "R", "S", "T", "U", "V", "W", "X", "Y", "Z",
   "0", "1", "2", "3", "4", "5", "6", "7", "8", "9",
   "-", "_", ".", "!", "~", "*", "'", "(", ")"}

HexDigits ==
  {"0", "1", "2", "3", "4", "5", "6", "7", "8", "9", "A", "B", "C", "D", "E", "F",
   "a", "b", "c", "d", "e", "f"}

\* the UTF-8 bytes of the characters of the model that are escaped, each
\* byte as its two hex digits
UTF8Bytes ==
  [c \in {" ", "\"", "#", "%", "&", "+", "=", "?", "00E9", "FFFD"} |->
     CASE c = " " -> <<<<"2", "0">>>>
       [] c = "\"" -> <<<<"2", "2">>>>
       [] c = "#" -> <<<<"2", "3">>>>
       [] c = "%" -> <<<<"2", "5">>>>
       [] c = "&" -> <<<<"2", "6">>>>
       [] c = "+" -> <<<<"2", "B">>>>
       [] c = "=" -> <<<<"3", "D">>>>
       [] c = "?" -> <<<<"3", "F">>>>
       [] c = "00E9" -> <<<<"C", "3">>, <<"A", "9">>>>
       [] c = "FFFD" -> <<<<"E", "F">>, <<"B", "F">>, <<"B", "D">>>>]

\* the UTF-8 bytes of U+1F600
UTF8OfPair == <<<<"F", "0">>, <<"9", "F">>, <<"9", "8">>, <<"8", "0">>>>

RECURSIVE PercentEscapes(_)
PercentEscapes(bytes) ==
  IF bytes = <<>> THEN <<>>
  ELSE <<"%">> \o bytes[1] \o PercentEscapes(Tail(bytes))

\* encodeURIComponent of a well-formed string (it throws a URIError for
\* any other)
RECURSIVE encodeURIComponent(_)
encodeURIComponent(s) ==
  IF s = <<>> THEN <<>>
  ELSE IF s[1] \in URIUnreserved THEN <<s[1]>> \o encodeURIComponent(Tail(s))
  ELSE IF s[1] \in HighSurrogates
  THEN PercentEscapes(UTF8OfPair) \o encodeURIComponent(SubSeq(s, 3, Len(s)))
  ELSE PercentEscapes(UTF8Bytes[s[1]]) \o encodeURIComponent(Tail(s))

\* the characters the setter of location.hash escapes in the fragment
FragmentEscaped == {" ", "\"", "00E9", "FFFD"}

\* location.hash = value, read back: "#" and the fragment
RECURSIVE FragmentOf(_)
FragmentOf(value) ==
  IF value = <<>> THEN <<>>
  ELSE IF value[1] \in HighSurrogates /\ Len(value) >= 2 /\ value[2] \in LowSurrogates
  THEN PercentEscapes(UTF8OfPair) \o FragmentOf(SubSeq(value, 3, Len(value)))
  ELSE IF value[1] \in HighSurrogates \cup LowSurrogates
  THEN PercentEscapes(UTF8Bytes["FFFD"]) \o FragmentOf(Tail(value))
  ELSE IF value[1] \in FragmentEscaped
  THEN PercentEscapes(UTF8Bytes[value[1]]) \o FragmentOf(Tail(value))
  ELSE <<value[1]>> \o FragmentOf(Tail(value))

\* location.hash of a URL without fragment
NoFragment == <<>>

\* "#search"
SearchHash == <<"#", "s", "e", "a", "r", "c", "h">>

\* "search?q="
SearchFragment == <<"s", "e", "a", "r", "c", "h", "?", "q", "=">>

\* location.hash after location.hash = `search?q=${encodeURIComponent(q)}`
LinkTo(q) == <<"#">> \o FragmentOf(SearchFragment \o encodeURIComponent(q))

\* location.hash after updateUrlHash(searchQuery), for a searchQuery that
\* encodeURIComponent accepts
updateUrlHash(searchQuery, hash) ==
  IF Trim(searchQuery) # <<>>
  THEN LinkTo(searchQuery)
  ELSE IF HasPrefix(hash, SearchHash) THEN NoFragment
  ELSE hash

\* the character of one byte below 80, its hex digits in capitals as
\* encodeURIComponent writes them
ASCIIOf(byte) ==
  IF \E c \in DOMAIN UTF8Bytes : UTF8Bytes[c] = <<byte>>
  THEN CHOOSE c \in DOMAIN UTF8Bytes : UTF8Bytes[c] = <<byte>>
  ELSE IF byte = <<"6", "1">> THEN "a"
  ELSE IF byte = <<"6", "2">> THEN "b"
  ELSE "FFFD"

IsEscape(s) == Len(s) >= 3 /\ s[1] = "%" /\ s[2] \in HexDigits /\ s[3] \in HexDigits

\* the bytes at the head of s that are written as escapes
RECURSIVE EscapedBytes(_)
EscapedBytes(s) ==
  IF IsEscape(s) THEN <<<<s[2], s[3]>>>> \o EscapedBytes(SubSeq(s, 4, Len(s))) ELSE <<>>

\* UTF-8 decoding of bytes, an invalid byte giving U+FFFD
RECURSIVE UTF8Decode(_)
UTF8Decode(bytes) ==
  IF bytes = <<>> THEN <<>>
  ELSE IF HasPrefix(bytes, UTF8OfPair)
  THEN <<"D83D", "DE00">> \o UTF8Decode(SubSeq(bytes, 5, Len(bytes)))
  ELSE IF HasPrefix(bytes, UTF8Bytes["00E9"])
  THEN <<"00E9">> \o UTF8Decode(SubSeq(bytes, 3, Len(bytes)))
  ELSE IF HasPrefix(bytes, UTF8Bytes["FFFD"])
  THEN <<"FFFD">> \o UTF8Decode(SubSeq(bytes, 4, Len(bytes)))
  ELSE <<ASCIIOf(bytes[1])>> \o UTF8Decode(Tail(bytes))

\* the value of a name or value of application/x-www-form-urlencoded:
\* "+" is a space, escapes are bytes, and the bytes are decoded as UTF-8
RECURSIVE FormDecode(_)
FormDecode(s) ==
  IF s = <<>> THEN <<>>
  ELSE IF IsEscape(s)
  THEN UTF8Decode(EscapedBytes(s))
       \o FormDecode(SubSeq(s, 3 * Len(EscapedBytes(s)) + 1, Len(s)))
  ELSE IF s[1] = "+" THEN <<" ">> \o FormDecode(Tail(s))
  ELSE IF s[1] \in HighSurrogates /\ Len(s) >= 2 /\ s[2] \in LowSurrogates
  THEN <<s[1], s[2]>> \o FormDecode(SubSeq(s, 3, Len(s)))
  ELSE IF s[1] \in HighSurrogates \cup LowSurrogates
  THEN <<"FFFD">> \o FormDecode(Tail(s))
  ELSE <<s[1]>> \o FormDecode(Tail(s))

\* the length of the longest prefix of s without c
RECURSIVE PrefixLen(_, _)
PrefixLen(s, c) ==
  IF s = <<>> \/ s[1] = c THEN 0 ELSE 1 + PrefixLen(Tail(s), c)

\* new URLSearchParams(init).get(name): the value of the first of the
\* "&"-separated pairs with that name, null when there is none
RECURSIVE URLSearchParamsGet(_, _)
URLSearchParamsGet(init, name) ==
  IF init = <<>> THEN [isNull |-> TRUE, value |-> <<>>]
  ELSE LET pair == SubSeq(init, 1, PrefixLen(init, "&"))
           rest == SubSeq(init, Len(pair) + 2, Len(init))
           n == PrefixLen(pair, "=")
       IN IF pair # <<>> /\ FormDecode(SubSeq(pair, 1, n)) = name
          THEN [isNull |-> FALSE, value |-> FormDecode(SubSeq(pair, n + 2, Len(pair)))]
          ELSE URLSearchParamsGet(rest, name)

\* SearchParamOf taking the text after "q=" as it stands
SearchParamOf_raw(hash) ==
  IF HasPrefix(hash, <<"#">> \o SearchFragment)
  THEN SubSeq(hash, 11, Len(hash))
  ELSE <<>>

\* the searchParam checkHashForSearch passes to setQuery, empty when it
\* does not call setQuery
SearchParamOf(hash) ==
  IF HasPrefix(hash, <<"#">> \o SearchFragment)
  THEN LET searchParam == URLSearchParamsGet(SubSeq(hash, 9, Len(hash)), <<"q">>)
       IN IF searchParam.isNull THEN <<>> ELSE searchParam.value
  ELSE <<>>

(***************************************************************************)
(* searchUtilities: the request body.  Strings of the request are strings. *)
(***************************************************************************)
\* FilterCondition without the emoji special case
FilterCondition_noAlias(category) ==
  "category = '" \o category \o "'"

\* the callback of categories.map
FilterCondition(category) ==
  IF category = "emoji" THEN "category = 'emojis'"
  ELSE "category = '" \o category \o "'"

\* Array.prototype.join
RECURSIVE Join(_, _)
Join(strs, sep) ==
  IF Len(strs) = 0 THEN ""
  ELSE IF Len(strs) = 1 THEN strs[1]
  ELSE strs[1] \o sep \o Join(Tail(strs), sep)

\* FilterOf joining the conditions with AND
FilterOf_joinAnd(categories) ==
  LET filterConditions == [i \in 1..Len(categories) |-> FilterCondition(categories[i])]
  IN IF Len(filterConditions) = 1 THEN filterConditions[1]
     ELSE Join(filterConditions, " AND ")

FilterOf(categories) ==
  LET filterConditions == [i \in 1..Len(categories) |-> FilterCondition(categories[i])]
  IN IF Len(filterConditions) = 1 THEN filterConditions[1]
     ELSE Join(filterConditions, " OR ")

\* SearchBody with the offset of the next page (page * 100)
SearchBody_offsetOfNextPage(q, categories, page) ==
  [q |-> q,
   limit |-> 100,
   offset |-> page * 100,
   facets |-> <<"category">>,
   hasFilter |-> Len(categories) > 0,
   filter |-> IF Len(categories) > 0 THEN FilterOf(categories) ELSE ""]

SearchBody(q, categories, page) ==
  [q |-> q,
   limit |-> 100,
   offset |-> (page - 1) * 100,
   facets |-> <<"category">>,
   hasFilter |-> Len(categories) > 0,
   filter |-> IF Len(categories) > 0 THEN FilterOf(categories) ELSE ""]

(***************************************************************************)
(* The search service: it reads the filter expression, a disjunction of    *)
(* predicates category = '<literal>', and returns the ranked hits of the   *)
(* matching documents, the estimated total and the facet counts of the     *)
(* filtered match set.                                                     *)
(***************************************************************************)
FilterLiterals == StoredCategories \cup UICategories

LiteralLists ==
  UNION {[1..n -> FilterLiterals] : n \in 1..Cardinality(UICategories)}

FilterExpression(lits) ==
  Join([i \in 1..Len(lits) |-> "category = '" \o lits[i] \o "'"], " OR ")

\* the literals of every filter expression the service can read
FilterTable ==
  [f \in {FilterExpression(lits) : lits \in LiteralLists} |->
     CHOOSE lits \in LiteralLists : FilterExpression(lits) = f]

ParseFilter(f) == IF f \in DOMAIN FilterTable THEN FilterTable[f] ELSE <<>>

FilterSet(body) == IF body.hasFilter THEN Range(ParseFilter(body.filter)) ELSE {}

MatchedCategories(body) ==
  IF body.hasFilter THEN FilterSet(body) \cap StoredCategories
  ELSE StoredCategories

MatchTotal(d, body) ==
  SumOver([c \in StoredCategories |-> d[<<body.q, c>>]], MatchedCategories(body))

HitsOf(d, body) ==
  LET total == MatchTotal(d, body)
      n == Min(body.limit, total - body.offset)
  IN IF n > 0
     THEN <<[q |-> body.q, cats |-> FilterSet(body),
             lo |-> body.offset + 1, hi |-> body.offset + n]>>
     ELSE <<>>

ServiceResponse(d, body) ==
  LET cs == {c \in MatchedCategories(body) : d[<<body.q, c>>] > 0}
  IN [hits |-> HitsOf(d, body),
      hasEstimate |-> TRUE,
      estimatedTotalHits |-> MatchTotal(d, body),
      hasFacets |-> TRUE,
      facets |-> [c \in cs |-> d[<<body.q, c>>]]]

\* the value searchUtilities returns from its catch block
ErrorResponse ==
  [hits |-> <<>>, hasEstimate |-> TRUE, estimatedTotalHits |-> 0,
   hasFacets |-> FALSE, facets |-> NoCounts]

searchUtilities(d, body, ok) == IF ok THEN ServiceResponse(d, body) ELSE ErrorResponse

(***************************************************************************)
(* Values derived at render time.                                          *)
(***************************************************************************)
getEffectiveCategories(ac, sel) ==
  IF ac = "all" THEN <<>>
  ELSE IF ac = "multi" THEN sel
  ELSE <<ac>>

\* Math.ceil(totalHits / 100)
CeilDiv(n, k) == IF n % k = 0 THEN n \div k ELSE (n \div k) + 1

\* totalPages with Math.floor(totalHits / 100) + 1 in place of Math.ceil
totalPages_floorPlusOne ==
  IF searchInfo.isNull THEN 1 ELSE (searchInfo.totalHits \div 100) + 1

totalPages == IF searchInfo.isNull THEN 1 ELSE CeilDiv(searchInfo.totalHits, 100)

hasMoreResults == currentPage < totalPages

Rendered == ~crashed /\ Trim(query) # <<>>

LoadMoreVisible == Rendered /\ ~loading /\ Len(allResults) > 0 /\ hasMoreResults

(***************************************************************************)
(* window.searchState, declared optional: the query shared with the search *)
(* box of the page.                                                        *)
(***************************************************************************)
\* the page has no window.searchState
NoSearchState == [defined |-> FALSE, query |-> <<>>]

\* window.searchState.setQuery(q): the shared query becomes q
searchStateSetQuery(ss, q) == [ss EXCEPT !.query = q]

\* if (window.searchState) window.searchState.setQuery(q)
SetGlobalQuery(ss, q) == IF ss.defined THEN searchStateSetQuery(ss, q) ELSE ss

(***************************************************************************)
(* The part of the state that handlers and effects write, as one record.   *)
(***************************************************************************)
Cur ==
  [query |-> query, results |-> results, allResults |-> allResults,
   searchInfo |-> searchInfo, currentPage |-> currentPage,
   activeCategory |-> activeCategory, selectedCategories |-> selectedCategories,
   timer |-> timer, urlHash |-> urlHash, crashed |-> crashed]

\* handlers and effects run while the component is mounted
Commit(st) ==
  /\ ~crashed
  /\ urlHash' = st.urlHash
  /\ crashed' = st.crashed
  /\ query' = st.query
  /\ results' = st.results
  /\ allResults' = st.allResults
  /\ searchInfo' = st.searchInfo
  /\ currentPage' = st.currentPage
  /\ activeCategory' = st.activeCategory
  /\ selectedCategories' = st.selectedCategories
  /\ timer' = st.timer

\* SearchEffect leaving a pending timer as it is
SearchEffect_keepPending(st) ==
  IF Trim(st.query) = <<>>
  THEN [st EXCEPT !.timer = NoTimer, !.results = <<>>, !.searchInfo = NoInfo]
  ELSE IF st.timer.set THEN st
  ELSE [st EXCEPT !.timer =
          [set |-> TRUE, q |-> st.query,
           cats |-> getEffectiveCategories(st.activeCategory, st.selectedCategories),
           left |-> DebounceMs]]

\* the debounced search effect: cleanup of the previous run, then the body
SearchEffect(st) ==
  IF Trim(st.query) = <<>>
  THEN [st EXCEPT !.timer = NoTimer, !.results = <<>>, !.searchInfo = NoInfo]
  ELSE [st EXCEPT !.timer =
          [set |-> TRUE, q |-> st.query,
           cats |-> getEffectiveCategories(st.activeCategory, st.selectedCategories),
           left |-> DebounceMs]]

\* the effect on [activeCategory, selectedCategories]
CategoryResetEffect(st) ==
  [st EXCEPT !.currentPage = 1, !.results = <<>>, !.allResults = <<>>,
             !.searchInfo = NoInfo]

\* the effect on [query]: updateUrlHash(query).  A URIError that
\* encodeURIComponent throws in the effect unmounts the component, and the
\* cleanup of the search effect clears the timer.
UrlEffect(st) ==
  IF st.crashed THEN st
  ELSE IF Trim(st.query) # <<>> /\ ~WellFormed(st.query)
  THEN [st EXCEPT !.crashed = TRUE, !.timer = NoTimer]
  ELSE [st EXCEPT !.urlHash = updateUrlHash(st.query, st.urlHash)]

\* setQuery(q) in state st and the effects of the render it causes
SetQueryIn(st, q) ==
  IF q = st.query THEN st ELSE UrlEffect(SearchEffect([st EXCEPT !.query = q]))

SetQuery(q) == SetQueryIn(Cur, q)

\* a new activeCategory / selectedCategories (always a new array) and the
\* effects of the render it causes
SetCategories(st, ac, sel) ==
  CategoryResetEffect(SearchEffect(
    [st EXCEPT !.activeCategory = ac, !.selectedCategories = sel]))

(***************************************************************************)
(* Event handlers.                                                         *)
(***************************************************************************)
\* the listener of searchQueryChanged: setQuery(newQuery), then
\* updateUrlHash(newQuery)
handleSearchQueryChange(newQuery) ==
  /\ Commit(UrlEffect(SetQuery(newQuery)))
  /\ UNCHANGED <<loading, loadingMore, availableCategories, inflight, docs, windowVars, buildVars>>

\* the address gets the fragment hash (a link is followed, the address is
\* edited) and the listener of hashchange runs checkHashForSearch
checkHashForSearch(hash) ==
  /\ Commit(LET searchParam == SearchParamOf(hash)
                st == [Cur EXCEPT !.urlHash = hash]
            IN IF searchParam # <<>> THEN SetQueryIn(st, searchParam) ELSE st)
  /\ searchState' = LET searchParam == SearchParamOf(hash)
                    IN IF searchParam # <<>>
                       THEN SetGlobalQuery(searchState, searchParam)
                       ELSE searchState
  /\ UNCHANGED <<loading, loadingMore, availableCategories, inflight, docs, keyDown, buildVars>>

\* CategoryClickResult that leaves the selection as it is when "all" is
\* clicked
CategoryClickResult_keepsSelection(st, category) ==
  IF category = "all"
  THEN SetCategories(st, "all", st.selectedCategories)
  ELSE SetCategories(st, category, <<category>>)

\* the state handleCategoryClick leaves, effects included
CategoryClickResult(st, category) ==
  IF category = "all"
  THEN SetCategories(st, "all", <<>>)
  ELSE SetCategories(st, category, <<category>>)

handleCategoryClick(category) ==
  /\ Rendered
  /\ Commit(CategoryClickResult(Cur, category))
  /\ UNCHANGED <<loading, loadingMore, availableCategories, inflight, docs, windowVars, buildVars>>

\* CategoryRightClickResult selecting the clicked category alone
CategoryRightClickResult_replace(st, category) ==
  IF category = "all"
  THEN SetCategories(st, "all", <<>>)
  ELSE IF category \in Range(st.selectedCategories)
  THEN LET newSelection == SelectSeq(st.selectedCategories, LAMBDA c : c # category)
       IN SetCategories(st,
                        IF Len(newSelection) = 0 THEN "all" ELSE "multi",
                        newSelection)
  ELSE SetCategories(st, "multi", <<category>>)

\* the state handleCategoryRightClick leaves, effects included
CategoryRightClickResult(st, category) ==
  IF category = "all"
  THEN SetCategories(st, "all", <<>>)
  ELSE IF category \in Range(st.selectedCategories)
  THEN LET newSelection == SelectSeq(st.selectedCategories, LAMBDA c : c # category)
       IN SetCategories(st,
                        IF Len(newSelection) = 0 THEN "all" ELSE "multi",
                        newSelection)
  ELSE SetCategories(st, "multi", Append(st.selectedCategories, category))

handleCategoryRightClick(category) ==
  /\ Rendered
  /\ Commit(CategoryRightClickResult(Cur, category))
  /\ UNCHANGED <<loading, loadingMore, availableCategories, inflight, docs, windowVars, buildVars>>

\* the "View all results" button is rendered
ViewAllVisible == Rendered /\ ~loading /\ Len(results) > 0 /\ Len(allResults) = 0

\* the "View all results" button: setActiveCategory("all") and the effects
\* of the render it causes.  No state of the page renders the button
\* (results is never non-empty while allResults is empty), so no next-state
\* relation holds this action.
viewAllResults ==
  /\ ViewAllVisible
  /\ Commit(IF activeCategory = "all" THEN Cur
            ELSE CategoryResetEffect(SearchEffect([Cur EXCEPT !.activeCategory = "all"])))
  /\ UNCHANGED <<loading, loadingMore, availableCategories, inflight, docs, windowVars, buildVars>>

\* ClearedState leaving the category selection as it is
ClearedState_keepsCategories(st) ==
  UrlEffect(SearchEffect(
    [st EXCEPT !.query = <<>>, !.results = <<>>, !.allResults = <<>>,
               !.currentPage = 1]))

\* the state clearResults leaves, effects included
ClearedState(st) ==
  UrlEffect(SetCategories(
    [st EXCEPT !.query = <<>>, !.results = <<>>, !.allResults = <<>>,
               !.currentPage = 1],
    "all", <<>>))

\* a call of clearResults
CallClearResults ==
  /\ Commit(ClearedState(Cur))
  /\ searchState' = SetGlobalQuery(searchState, <<>>)
  /\ UNCHANGED <<loading, loadingMore, availableCategories, inflight, docs, buildVars>>

\* the clear button, rendered with the search UI
clearResults ==
  /\ Rendered
  /\ CallClearResults
  /\ UNCHANGED keyDown

\* the keys pressed
Keys == {"Escape", "Enter"}

\* the keydown listener of the document
handleKeyDown(key) ==
  /\ ~crashed
  /\ keyDown' = ~keyDown
  /\ IF key = "Escape" /\ Trim(query) # <<>>
     THEN CallClearResults
     ELSE UNCHANGED <<query, results, allResults, searchInfo, loading, loadingMore,
                      activeCategory, selectedCategories, currentPage,
                      availableCategories, timer, inflight, docs, urlHash,
                      crashed, searchState, buildVars>>

\* the search box of the page takes the text q: the shared query becomes q
\* and the searchQueryChanged event reaches the listener
searchBoxInput(q) ==
  /\ searchState' = SetGlobalQuery(searchState, q)
  /\ Commit(UrlEffect(SetQuery(q)))
  /\ UNCHANGED <<loading, loadingMore, availableCategories, inflight, docs, keyDown, buildVars>>

(***************************************************************************)
(* The debounce timer fires: the page-1 request is sent.  TimerFire is the *)
(* timer callback up to its await; the delay has passed when it runs.      *)
(***************************************************************************)
Request(kind, body, nextPage) == [kind |-> kind, body |-> body, nextPage |-> nextPage]

TimerFire ==
  /\ timer.set
  /\ BagCardinality(inflight) < MaxInFlight
  /\ loading' = TRUE
  /\ currentPage' = 1
  /\ availableCategories' = NoCounts
  /\ inflight' = inflight (+) SetToBag({Request("page1", SearchBody(timer.q, timer.cats, 1), 1)})
  /\ timer' = NoTimer
  /\ UNCHANGED <<query, results, allResults, searchInfo, loadingMore,
                 activeCategory, selectedCategories, docs, urlHash, crashed, windowVars, buildVars>>

\* Page1Apply taking the total from estimatedTotalHits only
Page1Apply_estimateOnly(r, searchResponse) ==
  /\ ~crashed
  /\ r \in BagToSet(inflight)
  /\ r.kind = "page1"
  /\ LET facetTotal == IF searchResponse.hasFacets
                       THEN SumOver(searchResponse.facets, DOMAIN searchResponse.facets)
                       ELSE 0
     IN /\ results' = searchResponse.hits
        /\ allResults' = searchResponse.hits
        /\ availableCategories' = IF searchResponse.hasFacets
                                  THEN searchResponse.facets
                                  ELSE availableCategories
        /\ searchInfo' = [isNull |-> FALSE,
                          totalHits |-> IF searchResponse.hasEstimate
                                        THEN searchResponse.estimatedTotalHits
                                        ELSE 0,
                          facetTotal |-> facetTotal]
  /\ loading' = FALSE
  /\ inflight' = inflight (-) SetToBag({r})
  /\ UNCHANGED <<query, loadingMore, activeCategory, selectedCategories,
                 currentPage, timer, docs, urlHash, crashed, windowVars, buildVars>>

\* the continuation of the timer callback after the await, for the response
\* the call returned
Page1Apply(r, searchResponse) ==
  /\ ~crashed
  /\ r \in BagToSet(inflight)
  /\ r.kind = "page1"
  /\ LET facetTotal == IF searchResponse.hasFacets
                       THEN SumOver(searchResponse.facets, DOMAIN searchResponse.facets)
                       ELSE 0
     IN /\ results' = searchResponse.hits
        /\ allResults' = searchResponse.hits
        /\ availableCategories' = IF searchResponse.hasFacets
                                  THEN searchResponse.facets
                                  ELSE availableCategories
        /\ searchInfo' = [isNull |-> FALSE,
                          totalHits |-> IF facetTotal > 0 THEN facetTotal
                                        ELSE IF searchResponse.hasEstimate
                                        THEN searchResponse.estimatedTotalHits
                                        ELSE 0,
                          facetTotal |-> facetTotal]
  /\ loading' = FALSE
  /\ inflight' = inflight (-) SetToBag({r})
  /\ UNCHANGED <<query, loadingMore, activeCategory, selectedCategories,
                 currentPage, timer, docs, urlHash, crashed, windowVars, buildVars>>

\* Page1Response sending the request again after a failure
Page1Response_retry(r, ok) ==
  IF ok THEN Page1Apply(r, searchUtilities(docs, r.body, ok))
  ELSE /\ ~crashed
       /\ r \in BagToSet(inflight)
       /\ r.kind = "page1"
       /\ results' = <<>>
       /\ allResults' = <<>>
       /\ loading' = TRUE
       /\ UNCHANGED <<query, searchInfo, loadingMore, activeCategory,
                      selectedCategories, currentPage, availableCategories,
                      timer, inflight, docs, urlHash, crashed, windowVars, buildVars>>

Page1Response(r, ok) == Page1Apply(r, searchUtilities(docs, r.body, ok))

(***************************************************************************)
(* Load more.                                                              *)
(***************************************************************************)
\* loadMoreResults requesting the current page again
loadMoreResults_samePage ==
  /\ LoadMoreVisible
  /\ ~(~hasMoreResults \/ loadingMore)
  /\ BagCardinality(inflight) < MaxInFlight
  /\ loadingMore' = TRUE
  /\ LET nextPage == currentPage + 1
     IN inflight' = inflight (+) SetToBag({Request("more",
                      SearchBody(query,
                                 getEffectiveCategories(activeCategory, selectedCategories),
                                 currentPage),
                      nextPage)})
  /\ UNCHANGED <<query, results, allResults, searchInfo, loading,
                 activeCategory, selectedCategories, currentPage,
                 availableCategories, timer, docs, urlHash, crashed, windowVars, buildVars>>

loadMoreResults ==
  /\ LoadMoreVisible
  /\ ~(~hasMoreResults \/ loadingMore)
  /\ BagCardinality(inflight) < MaxInFlight
  /\ loadingMore' = TRUE
  /\ LET nextPage == currentPage + 1
     IN inflight' = inflight (+) SetToBag({Request("more",
                      SearchBody(query,
                                 getEffectiveCategories(activeCategory, selectedCategories),
                                 nextPage),
                      nextPage)})
  /\ UNCHANGED <<query, results, allResults, searchInfo, loading,
                 activeCategory, selectedCategories, currentPage,
                 availableCategories, timer, docs, urlHash, crashed, windowVars, buildVars>>

\* the continuation of loadMoreResults after the await, for the response
\* the call returned
LoadMoreApply(r, searchResponse) ==
  /\ ~crashed
  /\ r \in BagToSet(inflight)
  /\ r.kind = "more"
  /\ LET newResults == searchResponse.hits
     IN /\ allResults' = allResults \o newResults
        /\ results' = results \o newResults
  /\ currentPage' = r.nextPage
  /\ loadingMore' = FALSE
  /\ inflight' = inflight (-) SetToBag({r})
  /\ UNCHANGED <<query, searchInfo, loading, activeCategory, selectedCategories,
                 availableCategories, timer, docs, urlHash, crashed, windowVars, buildVars>>

LoadMoreResponse(r, ok) == LoadMoreApply(r, searchUtilities(docs, r.body, ok))

(***************************************************************************)
(* The component after mount, and the documents the service holds.         *)
(***************************************************************************)
DocKeys == (Queries \ {<<>>}) \X StoredCategories

Corpus ==
  [k \in DocKeys |->
     IF k[1] = <<"a">> THEN (IF k[2] = "tools" THEN 50 ELSE 200)
     ELSE IF k[1] = <<"b">> THEN (IF k[2] = "tools" THEN 30 ELSE 0)
     ELSE 0]

MountedPage ==
  /\ query = <<>>
  /\ results = <<>>
  /\ allResults = <<>>
  /\ searchInfo = NoInfo
  /\ loading = FALSE
  /\ loadingMore = FALSE
  /\ activeCategory = "all"
  /\ selectedCategories = <<>>
  /\ currentPage = 1
  /\ availableCategories = NoCounts
  /\ timer = NoTimer
  /\ inflight = EmptyBag
  /\ urlHash = NoFragment
  /\ crashed = FALSE

\* the page without window.searchState, before any key is pressed
Mounted ==
  /\ MountedPage
  /\ searchState = NoSearchState
  /\ keyDown = FALSE

\* the output file output/svg_icons.json before it is written
NoFile == [written |-> FALSE, icons |-> <<>>]

\* the index builder is a separate program; it is not running
BuilderIdle ==
  /\ buildPc = "idle"
  /\ cluster = <<>>
  /\ clusterIndex = 0
  /\ fileIndex = 0
  /\ svgIconsData = <<>>
  /\ iconPath = <<>>
  /\ iconID = <<>>
  /\ ctxDone = FALSE
  /\ outputFile = NoFile
  /\ stemRuns = 0
  /\ exitError = "none"

Init == Mounted /\ docs = Corpus /\ BuilderIdle

Next ==
  \/ \E q \in Queries : handleSearchQueryChange(q)
  \/ \E q \in Queries \ {<<>>} : checkHashForSearch(LinkTo(q))
  \/ \E c \in Categories \cup {"all"} : handleCategoryClick(c)
  \/ \E c \in Categories \cup {"all"} : handleCategoryRightClick(c)
  \/ clearResults
  \/ TimerFire
  \/ \E r \in BagToSet(inflight), ok \in BOOLEAN : Page1Response(r, ok)
  \/ loadMoreResults
  \/ \E r \in BagToSet(inflight), ok \in BOOLEAN : LoadMoreResponse(r, ok)

Spec == Init /\ [][Next]_vars

(***************************************************************************)
(* The page with the search box and the keyboard: window.searchState may   *)
(* be defined, the query comes from the search box, keys are pressed, and  *)
(* every request succeeds.                                                 *)
(***************************************************************************)
InitClear ==
  /\ MountedPage
  /\ searchState \in {NoSearchState, [defined |-> TRUE, query |-> <<>>]}
  /\ keyDown = FALSE
  /\ docs = Corpus
  /\ BuilderIdle

NextClear ==
  \/ \E q \in Queries : searchBoxInput(q)
  \/ \E c \in Categories \cup {"all"} : handleCategoryClick(c)
  \/ clearResults
  \/ \E key \in Keys : handleKeyDown(key)
  \/ TimerFire
  \/ \E r \in BagToSet(inflight) : Page1Response(r, TRUE)
  \/ loadMoreResults
  \/ \E r \in BagToSet(inflight) : LoadMoreResponse(r, TRUE)

SpecClear == InitClear /\ [][NextClear]_vars

(***************************************************************************)
(* The same program when every request succeeds.                           *)
(***************************************************************************)
NextNoFail ==
  \/ \E q \in Queries : handleSearchQueryChange(q)
  \/ \E q \in Queries \ {<<>>} : checkHashForSearch(LinkTo(q))
  \/ \E c \in Categories \cup {"all"} : handleCategoryClick(c)
  \/ \E c \in Categories \cup {"all"} : handleCategoryRightClick(c)
  \/ clearResults
  \/ TimerFire
  \/ \E r \in BagToSet(inflight) : Page1Response(r, TRUE)
  \/ loadMoreResults
  \/ \E r \in BagToSet(inflight) : LoadMoreResponse(r, TRUE)

SpecNoFail == Init /\ [][NextNoFail]_vars

(***************************************************************************)
(* Sequential use: the query and the categories are chosen while nothing   *)
(* is displayed or in flight, every request succeeds, and the service may  *)
(* hold any number of matching documents.                                  *)
(***************************************************************************)
CorpusOf(n) ==
  [k \in DocKeys |->
     IF k[1] = <<"a">> THEN (IF k[2] = "tools" THEN n - (n \div 2) ELSE n \div 2)
     ELSE 0]

Fresh ==
  /\ inflight = EmptyBag
  /\ allResults = <<>>
  /\ searchInfo.isNull
  /\ currentPage = 1

InitSeq == Mounted /\ BuilderIdle /\ \E n \in 0..MaxDocs : docs = CorpusOf(n)

NextSeq ==
  \/ Fresh /\ \E q \in Queries : handleSearchQueryChange(q)
  \/ Fresh /\ \E c \in Categories \cup {"all"} : handleCategoryClick(c)
  \/ Fresh /\ \E c \in Categories \cup {"all"} : handleCategoryRightClick(c)
  \/ TimerFire
  \/ \E r \in BagToSet(inflight) : Page1Response(r, TRUE)
  \/ loadMoreResults
  \/ \E r \in BagToSet(inflight) : LoadMoreResponse(r, TRUE)

SpecSeq == InitSeq /\ [][NextSeq]_vars

(***************************************************************************)
(* The load-more test on its own: any page counter and any total, then the *)
(* load-more button and its response.                                      *)
(***************************************************************************)
InitHasMore ==
  \E n \in 0..MaxDocs, p \in 1..MaxPageIn, known \in BOOLEAN :
    /\ docs = CorpusOf(n)
    /\ query = <<"a">>
    /\ results = HitsOf(docs, SearchBody(query, <<>>, 1))
    /\ allResults = results
    /\ searchInfo = IF known
                    THEN [isNull |-> FALSE, totalHits |-> n, facetTotal |-> n]
                    ELSE NoInfo
    /\ loading = FALSE
    /\ loadingMore = FALSE
    /\ activeCategory = "all"
    /\ selectedCategories = <<>>
    /\ currentPage = p
    /\ availableCategories = ServiceResponse(docs, SearchBody(query, <<>>, 1)).facets
    /\ timer = NoTimer
    /\ inflight = EmptyBag
    /\ urlHash = updateUrlHash(query, NoFragment)
    /\ crashed = FALSE
    /\ searchState = NoSearchState
    /\ keyDown = FALSE
    /\ BuilderIdle

NextHasMore ==
  \/ loadMoreResults
  \/ \E r \in BagToSet(inflight) : LoadMoreResponse(r, TRUE)

SpecHasMore == InitHasMore /\ [][NextHasMore]_vars

(***************************************************************************)
(* The debounce timer with its clock: time passes in steps while a timer   *)
(* is pending, and the callback runs when the timer is due.                *)
(***************************************************************************)
TickSteps == {100, 200}

Tick(d) ==
  /\ timer.set
  /\ timer.left > 0
  /\ timer' = [timer EXCEPT !.left = IF timer.left > d THEN timer.left - d ELSE 0]
  /\ UNCHANGED <<query, results, allResults, searchInfo, loading, loadingMore,
                 activeCategory, selectedCategories, currentPage,
                 availableCategories, inflight, docs, urlHash, crashed, windowVars, buildVars>>

TimerDue == timer.left = 0 /\ TimerFire

NextDebounce ==
  \/ \E q \in Queries : handleSearchQueryChange(q)
  \/ \E c \in Categories \cup {"all"} : handleCategoryClick(c)
  \/ \E c \in Categories \cup {"all"} : handleCategoryRightClick(c)
  \/ clearResults
  \/ \E d \in TickSteps : Tick(d)
  \/ TimerDue
  \/ \E r \in BagToSet(inflight) : Page1Response(r, TRUE)

SpecDebounce == Init /\ [][NextDebounce]_vars

(***************************************************************************)
(* The query and the URL fragment on their own: the page is loaded with    *)
(* any of the fragments below, then queries of up to MaxQueryLen code      *)
(* units arrive from the search box, fragments from the address bar, and   *)
(* the results are cleared.                                                *)
(***************************************************************************)
MaxQueryLen == 2

QueryUnits == {"a", " ", "+", "%", "&", "=", "#", "00E9", "D83D", "DE00"}

HashQueries == UNION {[1..n -> QueryUnits] : n \in 0..MaxQueryLen}

WellFormedQueries == {q \in HashQueries : WellFormed(q)}

\* no fragment, "#search?q=", "#search?q=a", "#search?q=a+b",
\* "#search?q=%20a", "#search?q=&q=a", "#search", "#top"
AddressFragments ==
  {NoFragment,
   <<"#">> \o SearchFragment,
   <<"#">> \o SearchFragment \o <<"a">>,
   <<"#">> \o SearchFragment \o <<"a", "+", "b">>,
   <<"#">> \o SearchFragment \o <<"%", "2", "0", "a">>,
   <<"#">> \o SearchFragment \o <<"&", "q", "=", "a">>,
   SearchHash,
   <<"#", "t", "o", "p">>}

\* the state of the first render of a page loaded with the fragment hash
MountedState(hash) ==
  [query |-> <<>>, results |-> <<>>, allResults |-> <<>>, searchInfo |-> NoInfo,
   currentPage |-> 1, activeCategory |-> "all", selectedCategories |-> <<>>,
   timer |-> NoTimer, urlHash |-> hash, crashed |-> FALSE]

\* the effects of the first render: checkHashForSearch reads the fragment,
\* the effect on [query] runs updateUrlHash with the empty query of that
\* render, and the query that was set is rendered with its effects
MountEffects(st) ==
  LET searchParam == SearchParamOf(st.urlHash)
      first == UrlEffect(st)
  IN IF searchParam # <<>> THEN SetQueryIn(first, searchParam) ELSE first

InitHash ==
  /\ \E hash \in AddressFragments :
       LET st == MountEffects(MountedState(hash))
       IN /\ query = st.query
          /\ results = st.results
          /\ allResults = st.allResults
          /\ searchInfo = st.searchInfo
          /\ currentPage = st.currentPage
          /\ activeCategory = st.activeCategory
          /\ selectedCategories = st.selectedCategories
          /\ timer = st.timer
          /\ urlHash = st.urlHash
          /\ crashed = st.crashed
  /\ searchState = NoSearchState
  /\ keyDown = FALSE
  /\ loading = FALSE
  /\ loadingMore = FALSE
  /\ availableCategories = NoCounts
  /\ inflight = EmptyBag
  /\ docs = Corpus
  /\ BuilderIdle

NextHash(queries) ==
  \/ \E q \in queries : handleSearchQueryChange(q)
  \/ \E hash \in AddressFragments : checkHashForSearch(hash)
  \/ clearResults

SpecHash == InitHash /\ [][NextHash(HashQueries)]_vars

\* the same with the queries without a lone surrogate
SpecHashWellFormed == InitHash /\ [][NextHash(WellFormedQueries)]_vars

(***************************************************************************)
(* The index builder (Go).  Its strings are sequences of bytes: an ASCII    *)
(* byte is written as its character, a byte above 7F as its two hex        *)
(* digits.  The characters outside ASCII of the model are e-acute (C3 A9), *)
(* its capital (C3 89) and the replacement character U+FFFD (EF BF BD).    *)
(***************************************************************************)
LowerLetters ==
  <<"a", "b", "c", "d", "e", "f", "g", "h", "i", "j", "k", "l", "m", "n",
    "o", "p", "q", "r", "s", "t", "u", "v", "w", "x", "y", "z">>

UpperLetters ==
  <<"A", "B", "C", "D", "E", "F", "G", "H", "I", "J", "K", "L", "M", "N",
    "O", "P", "Q", "R", "S", "T", "U", "V", "W", "X", "Y", "Z">>

Digits == <<"0", "1", "2", "3", "4", "5", "6", "7", "8", "9">>

\* strings.TrimPrefix
StringsTrimPrefix(s, prefix) ==
  IF HasPrefix(s, prefix) THEN SubSeq(s, Len(prefix) + 1, Len(s)) ELSE s

\* strings.TrimSuffix
StringsTrimSuffix(s, suffix) ==
  IF HasSuffix(s, suffix) THEN SubSeq(s, 1, Len(s) - Len(suffix)) ELSE s

\* strings.Replace(s, old, new, n) for a non-empty old: the first n
\* occurrences from the left, all of them when n < 0
RECURSIVE StringsReplace(_, _, _, _)
StringsReplace(s, old, new, n) ==
  IF n = 0 \/ Len(s) < Len(old) THEN s
  ELSE IF HasPrefix(s, old)
  THEN new \o StringsReplace(SubSeq(s, Len(old) + 1, Len(s)), old, new, n - 1)
  ELSE <<s[1]>> \o StringsReplace(Tail(s), old, new, n)

\* the character class [a-zA-Z0-9\-_]
IDChars == Range(LowerLetters) \cup Range(UpperLetters) \cup Range(Digits) \cup {"-", "_"}

\* the bytes above 7F
HighBytes == {"C3", "A9", "89", "EF", "BF", "BD"}

SmallEAcute == <<"C3", "A9">>

CapitalEAcute == <<"C3", "89">>

\* utf8.RuneError, which also stands for a byte that starts no character
RuneError == <<"EF", "BF", "BD">>

\* the number of bytes the decoder takes for the first character of a
\* non-empty s; a byte that starts no character is taken alone
RuneLen(s) ==
  IF HasPrefix(s, SmallEAcute) \/ HasPrefix(s, CapitalEAcute) THEN 2
  ELSE IF HasPrefix(s, RuneError) THEN 3
  ELSE 1

\* regexp.MustCompile(`[^a-zA-Z0-9\-_]`).ReplaceAllString(s, "_"): the
\* expression matches one character at a time
RECURSIVE ReplaceInvalid(_)
ReplaceInvalid(s) ==
  IF s = <<>> THEN <<>>
  ELSE (IF s[1] \in IDChars THEN <<s[1]>> ELSE <<"_">>)
       \o ReplaceInvalid(SubSeq(s, RuneLen(s) + 1, Len(s)))

\* sanitizeID: every character that is not allowed in an id becomes "_"
sanitizeID(id) ==
  [i \in 1..Len(id) |-> IF id[i] \in IDChars THEN id[i] ELSE "_"]

\* "/freedevtools/svg_icons/"
BasePath ==
  <<"/", "f", "r", "e", "e", "d", "e", "v", "t", "o", "o", "l", "s", "/",
    "s", "v", "g", "_", "i", "c", "o", "n", "s", "/">>

\* "svg-icons-"
IDPrefix == <<"s", "v", "g", "-", "i", "c", "o", "n", "s", "-">>

\* generateIconIDFromPath removing every occurrence of the base path
generateIconIDFromPath_removeAll(path) ==
  LET cleanPath1 == StringsReplace(path, BasePath, <<>>, -1)
      cleanPath2 == StringsTrimSuffix(cleanPath1, <<"/">>)
      cleanPath3 == StringsReplace(cleanPath2, <<"/">>, <<"-">>, -1)
      cleanPath4 == ReplaceInvalid(cleanPath3)
  IN IDPrefix \o sanitizeID(cleanPath4)

generateIconIDFromPath(path) ==
  LET cleanPath1 == StringsReplace(path, BasePath, <<>>, 1)
      cleanPath2 == StringsTrimSuffix(cleanPath1, <<"/">>)
      cleanPath3 == StringsReplace(cleanPath2, <<"/">>, <<"-">>, -1)
      cleanPath4 == ReplaceInvalid(cleanPath3)
  IN IDPrefix \o sanitizeID(cleanPath4)

(***************************************************************************)
(* generateIconIDFromPath on its own: any path, then the call.             *)
(***************************************************************************)
MaxLead == 1
MaxTail == 2

PathChars == {"a", "Z", "7", "/", "-", "_", ".", "~"}

CharSeqs(n) == UNION {[1..k -> PathChars] : k \in 0..n}

PathInputs ==
  {lead \o mid \o tail :
     lead \in CharSeqs(MaxLead),
     mid \in {<<>>, BasePath, BasePath \o BasePath},
     tail \in CharSeqs(MaxTail)}

InitIconID ==
  /\ Mounted
  /\ docs = Corpus
  /\ buildPc = "id"
  /\ cluster = <<>>
  /\ clusterIndex = 0
  /\ fileIndex = 0
  /\ svgIconsData = <<>>
  /\ iconPath \in PathInputs
  /\ iconID = <<>>
  /\ ctxDone = FALSE
  /\ outputFile = NoFile
  /\ stemRuns = 0
  /\ exitError = "none"

CallGenerateIconID ==
  /\ buildPc = "id"
  /\ iconID' = generateIconIDFromPath(iconPath)
  /\ buildPc' = "idDone"
  /\ UNCHANGED <<pageVars, cluster, clusterIndex, fileIndex, svgIconsData, iconPath,
                 runVars>>

NextIconID == CallGenerateIconID

SpecIconID == InitIconID /\ [][NextIconID]_vars

(***************************************************************************)
(* generateSVGIconsData: the loop over the clusters and their file names,  *)
(* then the sort by id.                                                    *)
(***************************************************************************)
LetterIndex(letters, c) == CHOOSE i \in 1..Len(letters) : letters[i] = c

\* unicode.ToUpper and unicode.ToLower on one decoded character; a byte
\* that starts no character decodes to utf8.RuneError
ToUpper(r) ==
  IF Len(r) = 1 /\ r[1] \in Range(LowerLetters)
  THEN <<UpperLetters[LetterIndex(LowerLetters, r[1])]>>
  ELSE IF r = SmallEAcute THEN CapitalEAcute
  ELSE IF Len(r) = 1 /\ r[1] \in HighBytes THEN RuneError
  ELSE r

ToLower(r) ==
  IF Len(r) = 1 /\ r[1] \in Range(UpperLetters)
  THEN <<LowerLetters[LetterIndex(UpperLetters, r[1])]>>
  ELSE IF r = CapitalEAcute THEN SmallEAcute
  ELSE IF Len(r) = 1 /\ r[1] \in HighBytes THEN RuneError
  ELSE r

\* strings.ToUpper and strings.ToLower: the string is decoded character by
\* character and every character is mapped
RECURSIVE StringsToUpper(_)
StringsToUpper(s) ==
  IF s = <<>> THEN <<>>
  ELSE ToUpper(SubSeq(s, 1, RuneLen(s)))
       \o StringsToUpper(SubSeq(s, RuneLen(s) + 1, Len(s)))

RECURSIVE StringsToLower(_)
StringsToLower(s) ==
  IF s = <<>> THEN <<>>
  ELSE ToLower(SubSeq(s, 1, RuneLen(s)))
       \o StringsToLower(SubSeq(s, RuneLen(s) + 1, Len(s)))

\* the white space strings.Fields splits on
WhiteSpace == {" "}

\* the length of the longest prefix of s without white space
RECURSIVE WordLen(_)
WordLen(s) ==
  IF s = <<>> \/ s[1] \in WhiteSpace THEN 0 ELSE 1 + WordLen(Tail(s))

\* strings.Fields
RECURSIVE StringsFields(_)
StringsFields(s) ==
  IF s = <<>> THEN <<>>
  ELSE IF s[1] \in WhiteSpace THEN StringsFields(Tail(s))
  ELSE <<SubSeq(s, 1, WordLen(s))>> \o StringsFields(SubSeq(s, WordLen(s) + 1, Len(s)))

\* strings.Join
RECURSIVE StringsJoin(_, _)
StringsJoin(words, sep) ==
  IF words = <<>> THEN <<>>
  ELSE IF Len(words) = 1 THEN words[1]
  ELSE words[1] \o sep \o StringsJoin(Tail(words), sep)

formatIconName(iconName) ==
  LET name1 == StringsReplace(iconName, <<"_">>, <<" ">>, -1)
      name == StringsReplace(name1, <<"-">>, <<" ">>, -1)
      words == StringsFields(name)
      \* word[:1] and word[1:] cut after the first byte
      titled == [i \in 1..Len(words) |->
                   StringsToUpper(SubSeq(words[i], 1, 1))
                   \o StringsToLower(SubSeq(words[i], 2, Len(words[i])))]
  IN StringsJoin(titled, <<" ">>)

\* ".svg"
SvgSuffix == <<".", "s", "v", "g">>

\* "SVG icon for "
DefaultDescriptionPrefix == <<"S", "V", "G", " ", "i", "c", "o", "n", " ", "f", "o", "r", " ">>

\* "/svg_icons/"
ImageBase == <<"/", "s", "v", "g", "_", "i", "c", "o", "n", "s", "/">>

\* DescriptionOf without the default
DescriptionOf_noDefault(description, displayName) == description

\* the description of a document: the one of the record, or the default
\* when the record has none
DescriptionOf(description, displayName) ==
  IF description = <<>>
  THEN DefaultDescriptionPrefix \o displayName
  ELSE description

\* IconDataOf with the id generated from the path and the description
IconDataOf_idFromDescription(sourceFolder, fileName) ==
  LET iconName == StringsTrimSuffix(StringsTrimPrefix(fileName.FileName, <<"_">>), SvgSuffix)
      displayName == formatIconName(iconName)
      path == BasePath \o sourceFolder \o <<"/">> \o iconName \o <<"/">>
      description == DescriptionOf(fileName.Description, displayName)
  IN [ID |-> generateIconIDFromPath(path \o description),
      Name |-> displayName,
      Description |-> description,
      Path |-> path,
      Image |-> ImageBase \o sourceFolder \o <<"/">> \o fileName.FileName,
      Category |-> "svg_icons"]

\* the body of the loop over the file names: the document of one file name
IconDataOf(sourceFolder, fileName) ==
  LET iconName == StringsTrimSuffix(StringsTrimPrefix(fileName.FileName, <<"_">>), SvgSuffix)
      displayName == formatIconName(iconName)
      path == BasePath \o sourceFolder \o <<"/">> \o iconName \o <<"/">>
      description == DescriptionOf(fileName.Description, displayName)
  IN [ID |-> generateIconIDFromPath(path),
      Name |-> displayName,
      Description |-> description,
      Path |-> path,
      Image |-> ImageBase \o sourceFolder \o <<"/">> \o fileName.FileName,
      Category |-> "svg_icons"]

\* the characters of an id in byte order
ByteOrder == <<"-">> \o Digits \o UpperLetters \o <<"_">> \o LowerLetters

\* the comparison of Go strings: byte-wise lexicographic
RECURSIVE StringLess(_, _)
StringLess(a, b) ==
  IF b = <<>> THEN FALSE
  ELSE IF a = <<>> THEN TRUE
  ELSE IF a[1] = b[1] THEN StringLess(Tail(a), Tail(b))
  ELSE LetterIndex(ByteOrder, a[1]) < LetterIndex(ByteOrder, b[1])

\* one pass of the inner loop of insertion sort: data[i] moves left while
\* it is less than its left neighbour
RECURSIVE InsertLeft(_, _)
InsertLeft(data, i) ==
  IF i > 1 /\ StringLess(data[i].ID, data[i - 1].ID)
  THEN InsertLeft([data EXCEPT ![i] = data[i - 1], ![i - 1] = data[i]], i - 1)
  ELSE data

RECURSIVE InsertionSortFrom(_, _)
InsertionSortFrom(data, i) ==
  IF i > Len(data) THEN data ELSE InsertionSortFrom(InsertLeft(data, i), i + 1)

\* sort.Slice by id.  Slices of fewer than seven elements, as here, are
\* sorted by insertion sort alone; longer ones by a quicksort variant that
\* is deterministic as well but does not keep the order of equal ids.
SortByID(data) == InsertionSortFrom(data, 2)

(***************************************************************************)
(* The text stemmer behind jargon_stemmer.ProcessJSONFile: per field,      *)
(* lowercase, split on non-alphanumeric boundaries, drop the tokens that   *)
(* are too short or in the stoplist, strip a suffix from each remaining    *)
(* token, and drop repeated tokens keeping the first.  The tokens are kept *)
(* with the original text in an auxiliary field of the document, which a   *)
(* later pass overwrites.                                                  *)
(***************************************************************************)
MinTokenLength == 2

StopList == {<<"f", "o", "r">>, <<"t", "h", "e">>}

\* the suffixes the reduction strips, the first that applies
StemSuffixes == <<<<"i", "n", "g">>, <<"s">>>>

Alphanumerics == Range(LowerLetters) \cup Range(UpperLetters) \cup Range(Digits)

\* the length of the longest alphanumeric prefix of s
RECURSIVE TokenLen(_)
TokenLen(s) ==
  IF s = <<>> \/ s[1] \notin Alphanumerics THEN 0 ELSE 1 + TokenLen(Tail(s))

RECURSIVE SplitTokens(_)
SplitTokens(s) ==
  IF s = <<>> THEN <<>>
  ELSE IF s[1] \notin Alphanumerics THEN SplitTokens(Tail(s))
  ELSE <<SubSeq(s, 1, TokenLen(s))>> \o SplitTokens(SubSeq(s, TokenLen(s) + 1, Len(s)))

KeepsToken(token) == Len(token) >= MinTokenLength /\ token \notin StopList

StemToken(token) ==
  LET fits == {i \in 1..Len(StemSuffixes) :
                 /\ HasSuffix(token, StemSuffixes[i])
                 /\ Len(token) - Len(StemSuffixes[i]) >= MinTokenLength}
  IN IF fits = {} THEN token
     ELSE StringsTrimSuffix(token, StemSuffixes[CHOOSE i \in fits : \A j \in fits : i <= j])

\* drops every token that occurred before
RECURSIVE Deduplicate(_)
Deduplicate(tokens) ==
  IF tokens = <<>> THEN <<>>
  ELSE LET rest == Deduplicate(SubSeq(tokens, 1, Len(tokens) - 1))
           last == tokens[Len(tokens)]
       IN IF \E i \in 1..Len(rest) : rest[i] = last THEN rest ELSE Append(rest, last)

StemText(text) ==
  LET kept == SelectSeq(SplitTokens(StringsToLower(text)), KeepsToken)
  IN Deduplicate([i \in 1..Len(kept) |-> StemToken(kept[i])])

\* the text of a field of a document, empty when the document has no such field
FieldOf(doc, field) == IF field \in DOMAIN doc THEN doc[field] ELSE <<>>

\* StemDocument that adds the tokens to those the document already has
StemDocument_appends(doc) ==
  LET before == IF "Stemmed" \in DOMAIN doc THEN doc.Stemmed.tokens ELSE <<>>
  IN ("Stemmed" :> [originalText |-> FieldOf(doc, "Description"),
                    tokens |-> before \o StemText(FieldOf(doc, "Description"))]) @@ doc

\* the document with its stemmed description, in place of an earlier one
StemDocument(doc) ==
  ("Stemmed" :> [originalText |-> FieldOf(doc, "Description"),
                 tokens |-> StemText(FieldOf(doc, "Description"))]) @@ doc

\* the pass over the documents of a file
ProcessJSONFile(icons) == [i \in 1..Len(icons) |-> StemDocument(icons[i])]

\* ReadClusterFile that goes on to the loop when the file cannot be read
\* or parsed
ReadClusterFile_continues(outcome) ==
  /\ buildPc = "start"
  /\ buildPc' = "cluster"
  /\ clusterIndex' = 1
  /\ exitError' = IF outcome = "ok" THEN exitError ELSE outcome
  /\ UNCHANGED <<pageVars, cluster, fileIndex, svgIconsData, iconPath, iconID,
                 ctxDone, outputFile, stemRuns>>

\* generateSVGIconsData reads and parses the cluster file; outcome is "ok",
\* "unreadable" or "unparseable".  RunSVGIconsOnly ends the process with
\* log.Fatalf when generateSVGIconsData returns an error.
ReadClusterFile(outcome) ==
  /\ buildPc = "start"
  /\ IF outcome = "ok"
     THEN /\ buildPc' = "cluster"
          /\ clusterIndex' = 1
          /\ UNCHANGED exitError
     ELSE /\ buildPc' = "fatal"
          /\ exitError' = outcome
          /\ UNCHANGED clusterIndex
  /\ UNCHANGED <<pageVars, cluster, fileIndex, svgIconsData, iconPath, iconID,
                 ctxDone, outputFile, stemRuns>>

\* the context is cancelled while generateSVGIconsData runs
Cancel ==
  /\ buildPc \in {"start", "cluster", "file"}
  /\ ~ctxDone
  /\ ctxDone' = TRUE
  /\ UNCHANGED <<pageVars, buildPc, cluster, clusterIndex, fileIndex, svgIconsData,
                 iconPath, iconID, outputFile, stemRuns, exitError>>

\* NextClusterEntry returning the documents built so far with the error
NextClusterEntry_partial ==
  /\ buildPc = "cluster"
  /\ clusterIndex <= Len(cluster)
  /\ IF ctxDone
     THEN /\ buildPc' = "fatal"
          /\ exitError' = "cancelled"
          /\ UNCHANGED <<svgIconsData, fileIndex>>
     ELSE /\ buildPc' = "file"
          /\ fileIndex' = 1
          /\ UNCHANGED <<svgIconsData, exitError>>
  /\ UNCHANGED <<pageVars, cluster, clusterIndex, iconPath, iconID,
                 ctxDone, outputFile, stemRuns>>

\* the head of the loop over the clusters, with its test of ctx.Done()
NextClusterEntry ==
  /\ buildPc = "cluster"
  /\ clusterIndex <= Len(cluster)
  /\ IF ctxDone
     THEN /\ buildPc' = "fatal"
          /\ exitError' = "cancelled"
          /\ svgIconsData' = <<>>
          /\ UNCHANGED fileIndex
     ELSE /\ buildPc' = "file"
          /\ fileIndex' = 1
          /\ UNCHANGED <<svgIconsData, exitError>>
  /\ UNCHANGED <<pageVars, cluster, clusterIndex, iconPath, iconID,
                 ctxDone, outputFile, stemRuns>>

\* ProcessFileName that appends no document for a file name starting with "_"
ProcessFileName_skipsUnderscore ==
  /\ buildPc = "file"
  /\ fileIndex <= Len(cluster[clusterIndex].FileNames)
  /\ LET iconData == IconDataOf(cluster[clusterIndex].SourceFolder,
                                cluster[clusterIndex].FileNames[fileIndex])
     IN /\ iconPath' = iconData.Path
        /\ iconID' = iconData.ID
        /\ svgIconsData' =
             IF HasPrefix(cluster[clusterIndex].FileNames[fileIndex].FileName, <<"_">>)
             THEN svgIconsData
             ELSE Append(svgIconsData, iconData)
  /\ fileIndex' = fileIndex + 1
  /\ UNCHANGED <<pageVars, buildPc, cluster, clusterIndex, runVars>>

\* the body of the loop over the file names of a cluster
ProcessFileName ==
  /\ buildPc = "file"
  /\ fileIndex <= Len(cluster[clusterIndex].FileNames)
  /\ LET iconData == IconDataOf(cluster[clusterIndex].SourceFolder,
                                cluster[clusterIndex].FileNames[fileIndex])
     IN /\ iconPath' = iconData.Path
        /\ iconID' = iconData.ID
        /\ svgIconsData' = Append(svgIconsData, iconData)
  /\ fileIndex' = fileIndex + 1
  /\ UNCHANGED <<pageVars, buildPc, cluster, clusterIndex, runVars>>

EndClusterEntry ==
  /\ buildPc = "file"
  /\ fileIndex > Len(cluster[clusterIndex].FileNames)
  /\ buildPc' = "cluster"
  /\ clusterIndex' = clusterIndex + 1
  /\ UNCHANGED <<pageVars, cluster, fileIndex, svgIconsData, iconPath, iconID,
                 runVars>>

\* SortAndReturn that returns the documents in the order they were built
SortAndReturn_unsorted ==
  /\ buildPc = "cluster"
  /\ clusterIndex > Len(cluster)
  /\ svgIconsData' = svgIconsData
  /\ buildPc' = "returned"
  /\ UNCHANGED <<pageVars, cluster, clusterIndex, fileIndex, iconPath, iconID,
                 runVars>>

\* the end of generateSVGIconsData: the documents are sorted by id and returned
SortAndReturn ==
  /\ buildPc = "cluster"
  /\ clusterIndex > Len(cluster)
  /\ svgIconsData' = SortByID(svgIconsData)
  /\ buildPc' = "returned"
  /\ UNCHANGED <<pageVars, cluster, clusterIndex, fileIndex, iconPath, iconID,
                 runVars>>

\* RunSVGIconsOnly saves the documents; ok tells whether saveToJSON succeeds
SaveToJSON(ok) ==
  /\ buildPc = "returned"
  /\ IF ok
     THEN /\ outputFile' = [written |-> TRUE, icons |-> svgIconsData]
          /\ buildPc' = "saved"
          /\ UNCHANGED exitError
     ELSE /\ buildPc' = "fatal"
          /\ exitError' = "save"
          /\ UNCHANGED outputFile
  /\ UNCHANGED <<pageVars, cluster, clusterIndex, fileIndex, svgIconsData,
                 iconPath, iconID, ctxDone, stemRuns>>

\* RunSVGIconsOnly runs the stemming pass over the saved file; ok tells
\* whether jargon_stemmer.ProcessJSONFile succeeds
StemFile(ok) ==
  /\ buildPc = "saved"
  /\ stemRuns' = stemRuns + 1
  /\ IF ok
     THEN /\ buildPc' = "done"
          /\ outputFile' = [outputFile EXCEPT !.icons = ProcessJSONFile(outputFile.icons)]
          /\ UNCHANGED exitError
     ELSE /\ buildPc' = "fatal"
          /\ exitError' = "stem"
          /\ UNCHANGED outputFile
  /\ UNCHANGED <<pageVars, cluster, clusterIndex, fileIndex, svgIconsData,
                 iconPath, iconID, ctxDone>>

\* the number of stemming passes over one file
MaxStemPasses == 2

\* the stemming pass run once more over the file of a finished run
StemFileAgain ==
  /\ buildPc = "done"
  /\ stemRuns < MaxStemPasses
  /\ stemRuns' = stemRuns + 1
  /\ outputFile' = [outputFile EXCEPT !.icons = ProcessJSONFile(outputFile.icons)]
  /\ UNCHANGED <<pageVars, buildPc, cluster, clusterIndex, fileIndex, svgIconsData,
                 iconPath, iconID, ctxDone, exitError>>

(***************************************************************************)
(* The source structures of a build: up to MaxRecords file-name records in *)
(* up to MaxClusters clusters.                                             *)
(***************************************************************************)
MaxRecords == 3
MaxClusters == 2

Folders == {<<"f">>, <<"G">>}

SourceRecords ==
  {[FileName |-> <<"_", "a", "-", "b", ".", "s", "v", "g">>, Description |-> <<>>],
   [FileName |-> <<"_", "a", "-", "b", ".", "s", "v", "g">>, Description |-> <<"d">>],
   [FileName |-> <<"a", "-", "b", ".", "s", "v", "g">>, Description |-> <<>>]}

RecordLists == UNION {[1..n -> SourceRecords] : n \in 0..MaxRecords}

\* the ways of cutting a list of len records into n consecutive clusters
Cuts(n, len) ==
  {c \in [1..(n + 1) -> 0..len] :
     c[1] = 0 /\ c[n + 1] = len /\ \A i \in 1..n : c[i] <= c[i + 1]}

ClusterInputs ==
  UNION {{[i \in 1..n |-> [SourceFolder |-> folders[i],
                           FileNames |-> SubSeq(records, c[i] + 1, c[i + 1])]] :
            folders \in [1..n -> Folders], c \in Cuts(n, Len(records))} :
         n \in 0..MaxClusters, records \in RecordLists}

InitBuild ==
  /\ Mounted
  /\ docs = Corpus
  /\ buildPc = "start"
  /\ cluster \in ClusterInputs
  /\ clusterIndex = 0
  /\ fileIndex = 0
  /\ svgIconsData = <<>>
  /\ iconPath = <<>>
  /\ iconID = <<>>
  /\ ctxDone = FALSE
  /\ outputFile = NoFile
  /\ stemRuns = 0
  /\ exitError = "none"

\* generateSVGIconsData when the cluster file is read and parsed and the
\* context is not cancelled
NextBuild ==
  \/ ReadClusterFile("ok")
  \/ NextClusterEntry
  \/ ProcessFileName
  \/ EndClusterEntry
  \/ SortAndReturn

SpecBuild == InitBuild /\ [][NextBuild]_vars

(***************************************************************************)
(* The name normalization on its own: a source structure of one record     *)
(* with any of the file names below, then generateSVGIconsData.            *)
(***************************************************************************)
NameLeads == {<<>>, <<"_">>, <<"_", "_">>}

ASCIINameCores ==
  {<<>>, <<"a">>, <<"a", "B">>, <<"a", "-", "b">>, <<"a", "_", "_", "b">>,
   <<" ", "a", " ", " ", "b", " ">>, <<"-">>}

NameCores ==
  ASCIINameCores \cup {SmallEAcute, SmallEAcute \o <<"a">>, <<"a">> \o CapitalEAcute}

NameExtensions == {<<>>, SvgSuffix, SvgSuffix \o SvgSuffix, <<".", "S", "V", "G">>}

NameInputs(cores) ==
  {lead \o core \o ext : lead \in NameLeads, core \in cores, ext \in NameExtensions}

InitName(cores) ==
  /\ Mounted
  /\ docs = Corpus
  /\ buildPc = "start"
  /\ \E name \in NameInputs(cores) :
       cluster = <<[SourceFolder |-> <<"f">>,
                    FileNames |-> <<[FileName |-> name, Description |-> <<>>]>>]>>
  /\ clusterIndex = 0
  /\ fileIndex = 0
  /\ svgIconsData = <<>>
  /\ iconPath = <<>>
  /\ iconID = <<>>
  /\ ctxDone = FALSE
  /\ outputFile = NoFile
  /\ stemRuns = 0
  /\ exitError = "none"

SpecName == InitName(NameCores) /\ [][NextBuild]_vars

\* the same over the file names in ASCII
SpecNameASCII == InitName(ASCIINameCores) /\ [][NextBuild]_vars

(***************************************************************************)
(* The stemming pass on its own: RunSVGIconsOnly has saved a file of up to *)
(* MaxStemDocs documents, with and without a description, and the pass     *)
(* runs over it up to MaxStemPasses times.                                 *)
(***************************************************************************)
MaxStemDocs == 2

StemWords ==
  {<<"I", "c", "o", "n", "s">>, <<"i", "c", "o", "n">>, <<"f", "o", "r">>,
   <<"T", "e", "s", "t", "i", "n", "g">>}

StemSeparators == {<<" ">>, <<",", " ">>}

StemTexts ==
  {<<>>} \cup StemWords
  \cup {w1 \o sep \o w2 : w1 \in StemWords, w2 \in StemWords, sep \in StemSeparators}

StemDocs ==
  {[ID |-> <<"x">>, Name |-> <<"X">>, Description |-> text, Path |-> <<"/">>,
    Image |-> <<"/">>, Category |-> "svg_icons"] : text \in StemTexts}
  \cup {[ID |-> <<"x">>, Name |-> <<"X">>, Path |-> <<"/">>, Image |-> <<"/">>,
         Category |-> "svg_icons"]}

InitStem ==
  /\ Mounted
  /\ docs = Corpus
  /\ buildPc = "saved"
  /\ cluster = <<>>
  /\ clusterIndex = 1
  /\ fileIndex = 0
  /\ svgIconsData \in UNION {[1..n -> StemDocs] : n \in 1..MaxStemDocs}
  /\ iconPath = <<>>
  /\ iconID = <<>>
  /\ ctxDone = FALSE
  /\ outputFile = [written |-> TRUE, icons |-> svgIconsData]
  /\ stemRuns = 0
  /\ exitError = "none"

NextStem ==
  \/ StemFile(TRUE)
  \/ StemFileAgain

SpecStem == InitStem /\ [][NextStem]_vars

(***************************************************************************)
(* RunSVGIconsOnly: generate, save, stem, with every outcome of reading,   *)
(* parsing, saving and stemming, and cancellation of the context.          *)
(***************************************************************************)
NextRun ==
  \/ \E outcome \in {"ok", "unreadable", "unparseable"} : ReadClusterFile(outcome)
  \/ Cancel
  \/ NextClusterEntry
  \/ ProcessFileName
  \/ EndClusterEntry
  \/ SortAndReturn
  \/ \E ok \in BOOLEAN : SaveToJSON(ok)
  \/ \E ok \in BOOLEAN : StemFile(ok)

SpecRun == InitBuild /\ [][NextRun]_vars

(***************************************************************************)
(* The category selection on its own: every category button, the query and *)
(* the selection changed only while no request is in flight, every request *)
(* successful.                                                             *)
(***************************************************************************)
NextSelect ==
  \/ inflight = EmptyBag /\ \E q \in Queries : handleSearchQueryChange(q)
  \/ inflight = EmptyBag /\ \E c \in UICategories \cup {"all"} : handleCategoryClick(c)
  \/ inflight = EmptyBag /\ \E c \in UICategories \cup {"all"} : handleCategoryRightClick(c)
  \/ TimerFire
  \/ \E r \in BagToSet(inflight) : Page1Response(r, TRUE)
  \/ loadMoreResults
  \/ \E r \in BagToSet(inflight) : LoadMoreResponse(r, TRUE)

SpecSelect == Init /\ [][NextSelect]_vars

(***************************************************************************)
(* A service whose estimated total and facet counts are arbitrary: any     *)
(* estimate or none, any facet distribution or none.                       *)
(***************************************************************************)
EstimateOptions ==
  {[has |-> FALSE, value |-> 0], [has |-> TRUE, value |-> 0], [has |-> TRUE, value |-> 250]}

FacetCounts == {0, 120}

FacetDistributions == UNION {[S -> FacetCounts] : S \in SUBSET StoredCategories}

AnyResponse(r) ==
  {[hits |-> HitsOf(docs, r.body),
    hasEstimate |-> e.has, estimatedTotalHits |-> e.value,
    hasFacets |-> TRUE, facets |-> f] :
     e \in EstimateOptions, f \in FacetDistributions}
  \cup
  {[hits |-> HitsOf(docs, r.body),
    hasEstimate |-> e.has, estimatedTotalHits |-> e.value,
    hasFacets |-> FALSE, facets |-> NoCounts] :
     e \in EstimateOptions}

NextFacets ==
  \/ \E q \in Queries : handleSearchQueryChange(q)
  \/ TimerFire
  \/ \E r \in BagToSet(inflight) : \E resp \in AnyResponse(r) : Page1Apply(r, resp)
  \/ loadMoreResults
  \/ \E r \in BagToSet(inflight) : \E resp \in AnyResponse(r) : LoadMoreApply(r, resp)

SpecFacets == Init /\ [][NextFacets]_vars

(***************************************************************************)
(* Signatures: the query and the set of category literals of the filter.   *)
(***************************************************************************)
CurBody(page) ==
  SearchBody(query, getEffectiveCategories(activeCategory, selectedCategories), page)

CurSig == <<query, FilterSet(CurBody(1))>>

ReqSig(r) == <<r.body.q, FilterSet(r.body)>>

SegSig(s) == <<s.q, s.cats>>

FromCurSig(hits) == \A i \in 1..Len(hits) : SegSig(hits[i]) = CurSig

RECURSIVE PagesUpTo(_)
PagesUpTo(n) ==
  IF n = 0 THEN <<>> ELSE PagesUpTo(n - 1) \o HitsOf(docs, CurBody(n))

\* the ranks of the documents of a hit list, one by one
RECURSIVE Flatten(_)
Flatten(hits) ==
  IF hits = <<>> THEN <<>>
  ELSE [i \in 1..(Head(hits).hi - Head(hits).lo + 1) |-> Head(hits).lo + i - 1]
       \o Flatten(Tail(hits))

Settled == Rendered /\ inflight = EmptyBag /\ ~timer.set

(***************************************************************************)
(* C1: a page-1 response whose signature is no longer the current one      *)
(* leaves results, allResults and searchInfo unchanged, and once nothing   *)
(* is pending the displayed results are those of the current signature.    *)
(***************************************************************************)
StalePage1Discarded ==
  [][/\ \A r \in BagToSet(inflight), ok \in BOOLEAN :
         (ReqSig(r) # CurSig /\ Page1Response(r, ok))
           => UNCHANGED <<results, allResults, searchInfo>>
     /\ Settled' => FromCurSig(results)']_vars

(***************************************************************************)
(* C2: a load-more response whose signature is no longer the current one   *)
(* appends nothing to the accumulation and does not set the page counter.  *)
(***************************************************************************)
StaleLoadMoreDiscarded ==
  [][\A r \in BagToSet(inflight), ok \in BOOLEAN :
       (ReqSig(r) # CurSig /\ LoadMoreResponse(r, ok))
         => (allResults' = allResults /\ currentPage' = currentPage)]_vars

(***************************************************************************)
(* C3: with a non-empty query, nothing in flight (and no debounce timer    *)
(* pending), allResults is the concatenation of pages 1..currentPage of    *)
(* the current signature.                                                  *)
(***************************************************************************)
AccumulationInvariant == Settled => allResults = PagesUpTo(currentPage)

(***************************************************************************)
(* C4: a failed load-more fetch leaves currentPage and allResults          *)
(* unchanged.                                                              *)
(***************************************************************************)
LoadMoreFailureKeepsPage ==
  [][\A r \in BagToSet(inflight) :
       LoadMoreResponse(r, FALSE)
         => (currentPage' = currentPage /\ allResults' = allResults)]_vars

(***************************************************************************)
(* C5: a load-more request is sent only while no page fetch of the current *)
(* signature, page-1 or load-more, is in flight.                           *)
(***************************************************************************)
LoadMoreReentrancyGuard ==
  [][loadMoreResults => \A r \in BagToSet(inflight) : ReqSig(r) # CurSig]_vars

(***************************************************************************)
(* C6: a request for a page > 1 is in flight only if the total of its own  *)
(* signature says that the page exists: (page - 1) * 100 < total.          *)
(***************************************************************************)
LoadMoreOnlyWhenMoreExist ==
  \A r \in BagToSet(inflight) :
    r.body.offset > 0 => r.body.offset < MatchTotal(docs, r.body)

(***************************************************************************)
(* C7: no hit fetched for another signature than the current one is in     *)
(* allResults.                                                             *)
(***************************************************************************)
ChangeDiscardsAccumulation == FromCurSig(allResults)

(***************************************************************************)
(* C8: while the query is empty (or whitespace only) results and           *)
(* allResults are empty, searchInfo is null and currentPage is 1.          *)
(***************************************************************************)
EmptyQueryIsIdle ==
  ~Rendered =>
    /\ results = <<>>
    /\ allResults = <<>>
    /\ searchInfo = NoInfo
    /\ currentPage = 1

(***************************************************************************)
(* C9: in sequential use, once the responses are applied, allResults holds *)
(* the first currentPage * 100 documents of the N matching ones, each once *)
(* and in service order, while hasMoreResults is true, and exactly the N   *)
(* documents after ceil(N / 100) pages, when hasMoreResults is false.      *)
(***************************************************************************)
PaginationComplete ==
  (Settled /\ ~searchInfo.isNull) =>
    LET N == MatchTotal(docs, CurBody(1))
    IN /\ FromCurSig(allResults)
       /\ IF hasMoreResults
          THEN /\ currentPage * PageSize < N
               /\ Flatten(allResults) = [i \in 1..(currentPage * PageSize) |-> i]
          ELSE /\ Flatten(allResults) = [i \in 1..N |-> i]
               /\ \/ N = 0 /\ currentPage = 1
                  \/ (currentPage - 1) * PageSize < N /\ N <= currentPage * PageSize

PaginationCompleteWitness ==
  /\ Settled
  /\ MatchTotal(docs, CurBody(1)) = 250
  /\ currentPage = 3
  /\ Len(allResults) = 3
  /\ Len(Flatten(allResults)) = 250
  /\ ~hasMoreResults

(***************************************************************************)
(* C10: hasMoreResults is true exactly when search info is available and   *)
(* currentPage * 100 < total.                                              *)
(***************************************************************************)
HasMoreIffPageTimesSizeBelowTotal ==
  hasMoreResults = (~searchInfo.isNull /\ currentPage * PageSize < searchInfo.totalHits)

HasMoreWitness ==
  /\ ~searchInfo.isNull
  /\ searchInfo.totalHits = 200
  /\ currentPage = 2
  /\ Len(allResults) = 2
  /\ ~loadingMore
  /\ ~hasMoreResults

(***************************************************************************)
(* C11: when a page-1 response is applied, the total (searchInfo.totalHits,*)
(* which decides hasMoreResults) is the sum of the response's facet counts *)
(* if that sum is positive and otherwise its estimatedTotalHits (0 when    *)
(* absent); a load-more response changes neither the total nor the stored  *)
(* facet counts.                                                           *)
(***************************************************************************)
ClaimedTotal(resp) ==
  LET sum == SumOver(resp.facets, DOMAIN resp.facets)
  IN IF resp.hasFacets /\ sum > 0 THEN sum
     ELSE IF resp.hasEstimate THEN resp.estimatedTotalHits
     ELSE 0

TotalFromFacetsElseEstimate ==
  [][\A r \in BagToSet(inflight) : \A resp \in AnyResponse(r) :
       /\ Page1Apply(r, resp) =>
            /\ ~searchInfo'.isNull
            /\ searchInfo'.totalHits = ClaimedTotal(resp)
            /\ hasMoreResults' = (currentPage' * PageSize < ClaimedTotal(resp))
       /\ LoadMoreApply(r, resp) =>
            UNCHANGED <<searchInfo, availableCategories>>]_vars

TotalFromFacetsWitness ==
  /\ ~searchInfo.isNull
  /\ searchInfo.facetTotal = 240
  /\ searchInfo.totalHits = 240
  /\ availableCategories = [c \in StoredCategories |-> 120]
  /\ currentPage = 2
  /\ Len(allResults) = 2
  /\ ~loadingMore

(***************************************************************************)
(* C12: a request for an empty category list carries no filter field; for  *)
(* one category it carries the single predicate category = '<literal>';    *)
(* for k >= 2 categories it carries k equality predicates, one per         *)
(* selected category, joined by ' OR ' in the list's insertion order.      *)
(***************************************************************************)
ClaimedLiteral(category) == IF category = "emoji" THEN "emojis" ELSE category

ClaimedPredicate(category) == "category = '" \o ClaimedLiteral(category) \o "'"

RECURSIVE ClaimedDisjunction(_, _)
ClaimedDisjunction(categories, k) ==
  IF k = 1 THEN ClaimedPredicate(categories[1])
  ELSE ClaimedDisjunction(categories, k - 1) \o " OR " \o ClaimedPredicate(categories[k])

FilterConstruction ==
  \A r \in BagToSet(inflight) :
    LET categories == getEffectiveCategories(activeCategory, selectedCategories)
        k == Len(categories)
    IN /\ k = 0 => ~r.body.hasFilter
       /\ k = 1 => r.body.hasFilter /\ r.body.filter = ClaimedPredicate(categories[1])
       /\ k >= 2 => /\ r.body.hasFilter
                    /\ Len(ParseFilter(r.body.filter)) = k
                    /\ r.body.filter = ClaimedDisjunction(categories, k)

FilterConstructionWitness ==
  /\ selectedCategories = <<"tldr", "tools", "emoji">>
  /\ \E r \in BagToSet(inflight) :
       /\ r.body.hasFilter
       /\ r.body.filter = "category = 'tldr' OR category = 'tools' OR category = 'emojis'"

(***************************************************************************)
(* C13: the category emoji is emitted in the filter as the literal emojis, *)
(* alone or among several; every other category is emitted unchanged.      *)
(***************************************************************************)
EmojiAlias ==
  \A r \in BagToSet(inflight) :
    LET categories == getEffectiveCategories(activeCategory, selectedCategories)
    IN r.body.hasFilter =>
         ParseFilter(r.body.filter) =
           [i \in 1..Len(categories) |->
              IF categories[i] = "emoji" THEN "emojis" ELSE categories[i]]

EmojiAliasWitness ==
  /\ activeCategory = "multi"
  /\ selectedCategories = <<"emoji", "tldr">>
  /\ \E r \in BagToSet(inflight) :
       /\ r.kind = "more"
       /\ ParseFilter(r.body.filter) = <<"emojis", "tldr">>

(***************************************************************************)
(* C14: every search request, filtered or not and for every page, requests *)
(* facet counts on the category field and carries limit = 100 and          *)
(* offset = (page - 1) * 100.                                              *)
(***************************************************************************)
FacetsLimitOffset ==
  \A r \in BagToSet(inflight) :
    /\ r.nextPage >= 1
    /\ r.body.facets = <<"category">>
    /\ r.body.limit = 100
    /\ r.body.offset = (r.nextPage - 1) * 100

FacetsLimitOffsetWitness ==
  \E r \in BagToSet(inflight) :
    /\ r.kind = "more"
    /\ r.nextPage = 3
    /\ r.body.offset = 200
    /\ ~r.body.hasFilter
    /\ r.body.facets = <<"category">>

(***************************************************************************)
(* C15: from the selection all, left-clicking X and then right-clicking Y  *)
(* gives the same effective category set, and a filter matching the same   *)
(* documents, as left-clicking Y and then right-clicking X, for every pair *)
(* of distinct categories.                                                 *)
(***************************************************************************)
ClickThenAdd(x, y) ==
  LET st == CategoryRightClickResult(CategoryClickResult(Cur, x), y)
  IN getEffectiveCategories(st.activeCategory, st.selectedCategories)

SelectionOrderIndependent ==
  activeCategory = "all" =>
    \A x, y \in UICategories :
      x # y =>
        /\ Range(ClickThenAdd(x, y)) = {x, y}
        /\ Range(ClickThenAdd(x, y)) = Range(ClickThenAdd(y, x))
        /\ \A q \in {key[1] : key \in DOMAIN docs}, page \in 1..MaxPageIn :
             searchUtilities(docs, SearchBody(q, ClickThenAdd(x, y), page), TRUE)
               = searchUtilities(docs, SearchBody(q, ClickThenAdd(y, x), page), TRUE)

SelectionOrderWitness ==
  /\ activeCategory = "multi"
  /\ selectedCategories = <<"emoji", "tools">>
  /\ ~searchInfo.isNull
  /\ searchInfo.totalHits = 250
  /\ Len(allResults) = 1

(***************************************************************************)
(* C16: each change of query or category selection cancels the pending     *)
(* timer and, unless the query is empty, starts a new 300 ms timer for the *)
(* latest query and effective categories; a page-1 fetch is issued only by *)
(* a timer that is due, 300 ms after the last change, carries the latest   *)
(* query and effective categories, and leaves no timer pending; no fetch   *)
(* is issued while the query is empty.                                     *)
(***************************************************************************)
Change ==
  \/ \E q \in Queries : q # query /\ handleSearchQueryChange(q)
  \/ \E c \in Categories \cup {"all"} : handleCategoryClick(c)
  \/ \E c \in Categories \cup {"all"} : handleCategoryRightClick(c)
  \/ clearResults

DebounceCoalesces ==
  [][/\ Change =>
          /\ inflight' = inflight
          /\ IF Trim(query') = <<>> THEN ~timer'.set
             ELSE timer' = [set |-> TRUE, q |-> query',
                            cats |-> getEffectiveCategories(activeCategory',
                                                            selectedCategories'),
                            left |-> 300]
     /\ inflight' # inflight /\ BagCardinality(inflight') > BagCardinality(inflight) =>
          /\ timer.set /\ timer.left = 0
          /\ Trim(query) # <<>>
          /\ ~timer'.set
          /\ inflight' = inflight (+) SetToBag({Request("page1",
                 SearchBody(query,
                            getEffectiveCategories(activeCategory, selectedCategories),
                            1), 1)})
     /\ (\E d \in TickSteps : Tick(d)) =>
          /\ timer'.left < timer.left
          /\ <<timer'.set, timer'.q, timer'.cats>> = <<timer.set, timer.q, timer.cats>>]_vars

DebounceWitness ==
  /\ query = <<"b">>
  /\ activeCategory = "multi"
  /\ selectedCategories = <<"emoji", "tools">>
  /\ ~timer.set
  /\ BagCardinality(inflight) = 1
  /\ \E r \in BagToSet(inflight) :
       /\ r.kind = "page1"
       /\ r.body.q = <<"b">>
       /\ FilterSet(r.body) = {"emojis", "tools"}

(***************************************************************************)
(* C17: a failed page-1 call is handled as an ordinary step: it leaves an  *)
(* empty result set and loading = false, it sends no request and starts no *)
(* timer, and no load-more can follow from its outcome.                    *)
(***************************************************************************)
FailedSearchHandled ==
  [][\A r \in BagToSet(inflight) :
       Page1Response(r, FALSE) =>
         /\ results' = <<>>
         /\ allResults' = <<>>
         /\ ~loading'
         /\ inflight' = inflight (-) SetToBag({r})
         /\ timer' = timer
         /\ ~hasMoreResults']_vars

FailedSearchWitness ==
  /\ query = <<"a">>
  /\ activeCategory = "all"
  /\ ~searchInfo.isNull
  /\ searchInfo.totalHits = 0
  /\ results = <<>>
  /\ allResults = <<>>
  /\ ~loading
  /\ ~timer.set
  /\ inflight = EmptyBag

(***************************************************************************)
(* C18: the state a failed search call leaves is an explicit failed state: *)
(* it differs from the state the same call leaves when it succeeds with    *)
(* zero hits.                                                              *)
(***************************************************************************)
FailureDistinguishable ==
  [][\A r \in BagToSet(inflight) :
       Page1Response(r, FALSE) /\ ServiceResponse(docs, r.body).hits = <<>>
         => ~Page1Response(r, TRUE)]_vars

(***************************************************************************)
(* C19: generateIconIDFromPath removes the first occurrence of             *)
(* "/freedevtools/svg_icons/", removes one trailing "/", replaces every    *)
(* remaining "/" with "-" and every character outside [a-zA-Z0-9-_] with   *)
(* "_", and prepends "svg-icons-"; it returns an id for every path, and    *)
(* for the empty path the prefix alone.                                    *)
(***************************************************************************)
FirstOccurrence(s, old) ==
  LET starts == {i \in 1..(Len(s) - Len(old) + 1) : SubSeq(s, i, i + Len(old) - 1) = old}
  IN IF starts = {} THEN 0 ELSE CHOOSE i \in starts : \A j \in starts : i <= j

ClaimedIconID(path) ==
  LET at == FirstOccurrence(path, BasePath)
      stripped == IF at = 0 THEN path
                  ELSE SubSeq(path, 1, at - 1) \o SubSeq(path, at + Len(BasePath), Len(path))
      n == IF Len(stripped) > 0 /\ stripped[Len(stripped)] = "/"
           THEN Len(stripped) - 1 ELSE Len(stripped)
  IN IDPrefix \o [i \in 1..n |-> IF stripped[i] = "/" THEN "-"
                                  ELSE IF stripped[i] \in IDChars THEN stripped[i]
                                  ELSE "_"]

IconIDPipeline ==
  /\ buildPc = "idDone" => iconID = ClaimedIconID(iconPath)
  /\ buildPc = "idDone" /\ iconPath = <<>> => iconID = IDPrefix
  /\ generateIconIDFromPath(iconPath) \in Seq(IDChars)

IconIDWitness ==
  /\ buildPc = "idDone"
  /\ iconPath = <<"~">> \o BasePath \o BasePath \o <<".", "/">>
  /\ iconID = IDPrefix \o <<"_">> \o StringsReplace(BasePath, <<"/">>, <<"-">>, -1) \o <<"_">>

(***************************************************************************)
(* C20: the id of a document is a function of the source folder and the    *)
(* file name of its record only: records with the same folder and file     *)
(* name get the same id whatever their descriptions, and the id is the one *)
(* computed from folder and file name without the display name.            *)
(***************************************************************************)
\* the records of the source structure in loop order, each with its folder
RECURSIVE FlatRecords(_)
FlatRecords(clusters) ==
  IF clusters = <<>> THEN <<>>
  ELSE [i \in 1..Len(clusters[1].FileNames) |->
          [SourceFolder |-> clusters[1].SourceFolder,
           FileName |-> clusters[1].FileNames[i].FileName,
           Description |-> clusters[1].FileNames[i].Description]]
       \o FlatRecords(Tail(clusters))

IdOfSource(sourceFolder, fileName) ==
  LET name == StringsTrimSuffix(StringsTrimPrefix(fileName, <<"_">>), SvgSuffix)
  IN ClaimedIconID(BasePath \o sourceFolder \o <<"/">> \o name \o <<"/">>)

IdStable ==
  LET source == FlatRecords(cluster)
  IN /\ buildPc \in {"cluster", "file"} =>
          /\ Len(svgIconsData) <= Len(source)
          /\ \A i \in 1..Len(svgIconsData) :
               svgIconsData[i].ID = IdOfSource(source[i].SourceFolder, source[i].FileName)
          /\ \A i, j \in 1..Len(svgIconsData) :
               /\ source[i].SourceFolder = source[j].SourceFolder
               /\ source[i].FileName = source[j].FileName
               => svgIconsData[i].ID = svgIconsData[j].ID
     /\ buildPc = "returned" =>
          /\ Len(svgIconsData) = Len(source)
          /\ \A i \in 1..Len(svgIconsData) : \E k \in 1..Len(source) :
               /\ svgIconsData[i].Image =
                    ImageBase \o source[k].SourceFolder \o <<"/">> \o source[k].FileName
               /\ svgIconsData[i].ID = IdOfSource(source[k].SourceFolder, source[k].FileName)

IdStableWitness ==
  /\ buildPc = "returned"
  /\ Len(svgIconsData) = 2
  /\ svgIconsData[1].ID = IDPrefix \o <<"f", "-", "a", "-", "b">>
  /\ svgIconsData[2].ID = svgIconsData[1].ID
  /\ svgIconsData[1].Name = <<"A", " ", "B">>
  /\ svgIconsData[1].Description = <<"d">>
  /\ svgIconsData[2].Description # <<"d">>

(***************************************************************************)
(* C21: when the records of the source structure have pairwise distinct    *)
(* (source folder, file name), no id appears more than once in the corpus  *)
(* generateSVGIconsData returns.                                           *)
(***************************************************************************)
DistinctSources(source) ==
  \A i, j \in 1..Len(source) :
    i # j => <<source[i].SourceFolder, source[i].FileName>>
               # <<source[j].SourceFolder, source[j].FileName>>

NoDuplicateIDs ==
  buildPc = "returned" /\ DistinctSources(FlatRecords(cluster)) =>
    \A i, j \in 1..Len(svgIconsData) : i # j => svgIconsData[i].ID # svgIconsData[j].ID

(***************************************************************************)
(* C22: if two source records resolve to the same id, the run is aborted:  *)
(* generateSVGIconsData does not return the documents and the output file  *)
(* is not written.                                                         *)
(***************************************************************************)
IDCollision(source) ==
  \E i, j \in 1..Len(source) :
    /\ i # j
    /\ IconDataOf(source[i].SourceFolder, source[i]).ID
         = IconDataOf(source[j].SourceFolder, source[j]).ID

CollisionIsFatal ==
  IDCollision(FlatRecords(cluster)) =>
    /\ buildPc \notin {"returned", "saved", "done"}
    /\ ~outputFile.written

(***************************************************************************)
(* C23: the name normalization (remove one leading "_", remove a trailing  *)
(* ".svg", replace "_" and "-" with spaces, title-case each word) applied  *)
(* to a name it produced gives the same name.                              *)
(***************************************************************************)
Normalize(x) ==
  formatIconName(StringsTrimSuffix(StringsTrimPrefix(x, <<"_">>), SvgSuffix))

NormalizationIdempotent ==
  \A i \in 1..Len(svgIconsData) :
    Normalize(svgIconsData[i].Name) = svgIconsData[i].Name

(***************************************************************************)
(* C24: formatIconName returns the words of its input (split on "_", "-"   *)
(* and white space, empty words dropped) joined by single spaces, each     *)
(* with its first character upper-cased and the rest lower-cased; the      *)
(* result has no "_" or "-" and no leading, trailing or repeated space,    *)
(* and the empty input gives the empty name.                               *)
(***************************************************************************)
WordSeparators == {"_", "-"} \cup WhiteSpace

RECURSIVE ClaimedWords(_, _)
ClaimedWords(s, word) ==
  IF s = <<>> THEN (IF word = <<>> THEN <<>> ELSE <<word>>)
  ELSE IF s[1] \in WordSeparators
  THEN (IF word = <<>> THEN <<>> ELSE <<word>>) \o ClaimedWords(Tail(s), <<>>)
  ELSE ClaimedWords(Tail(s), Append(word, s[1]))

ClaimedTitle(word) ==
  ToUpper(SubSeq(word, 1, RuneLen(word)))
  \o StringsToLower(SubSeq(word, RuneLen(word) + 1, Len(word)))

ClaimedDisplayName(input) ==
  LET words == ClaimedWords(input, <<>>)
  IN StringsJoin([i \in 1..Len(words) |-> ClaimedTitle(words[i])], <<" ">>)

DisplayNameIsTitleCased ==
  \A i \in 1..Len(svgIconsData) :
    LET input == StringsTrimSuffix(
                   StringsTrimPrefix(FlatRecords(cluster)[i].FileName, <<"_">>), SvgSuffix)
        name == svgIconsData[i].Name
    IN /\ name = ClaimedDisplayName(input)
       /\ \A k \in 1..Len(name) : name[k] \notin {"_", "-"}
       /\ name # <<>> => name[1] # " " /\ name[Len(name)] # " "
       /\ \A k \in 1..(Len(name) - 1) : ~(name[k] = " " /\ name[k + 1] = " ")
       /\ input = <<>> => name = <<>>

(***************************************************************************)
(* One document per record, with the collection's URL conventions.         *)
(***************************************************************************)
BagOfSeq(seq) ==
  [x \in {seq[i] : i \in 1..Len(seq)} |-> Cardinality({i \in 1..Len(seq) : seq[i] = x})]

\* the file name without one leading "_" and without one trailing ".svg"
ClaimedBareName(fileName) ==
  LET a == IF fileName # <<>> /\ fileName[1] = "_" THEN Tail(fileName) ELSE fileName
      n == Len(a)
  IN IF n >= 4 /\ SubSeq(a, n - 3, n) = <<".", "s", "v", "g">>
     THEN SubSeq(a, 1, n - 4)
     ELSE a

\* path, image and category of the document of a record
ClaimedURLs(record) ==
  [Path |-> <<"/", "f", "r", "e", "e", "d", "e", "v", "t", "o", "o", "l", "s", "/",
              "s", "v", "g", "_", "i", "c", "o", "n", "s", "/">>
            \o record.SourceFolder \o <<"/">> \o ClaimedBareName(record.FileName) \o <<"/">>,
   Image |-> <<"/", "s", "v", "g", "_", "i", "c", "o", "n", "s", "/">>
             \o record.SourceFolder \o <<"/">> \o record.FileName,
   Category |-> "svg_icons"]

URLsOf(iconData) ==
  [Path |-> iconData.Path, Image |-> iconData.Image, Category |-> iconData.Category]

\* C25: on success generateSVGIconsData returns exactly one document per
\* file-name record of every cluster (as many documents as records, none
\* skipped, none twice), each with category 'svg_icons', the path
\* '/freedevtools/svg_icons/<sourceFolder>/<name without leading _ and .svg>/'
\* and the image '/svg_icons/<sourceFolder>/<raw fileName>'; while the loop
\* runs the documents built so far are those of the first records, in order
OneDocumentPerRecord ==
  LET source == FlatRecords(cluster)
  IN /\ buildPc \in {"cluster", "file"} =>
          /\ Len(svgIconsData) <= Len(source)
          /\ \A i \in 1..Len(svgIconsData) : URLsOf(svgIconsData[i]) = ClaimedURLs(source[i])
     /\ buildPc = "returned" =>
          /\ Len(svgIconsData) = Len(source)
          /\ BagOfSeq([i \in 1..Len(svgIconsData) |-> URLsOf(svgIconsData[i])])
               = BagOfSeq([i \in 1..Len(source) |-> ClaimedURLs(source[i])])

\* a build has returned the documents of two clusters with different
\* folders, one of a file name with a leading "_" and one without
OneDocumentPerRecordWitness ==
  /\ buildPc = "returned"
  /\ Len(cluster) = 2
  /\ cluster[1].SourceFolder # cluster[2].SourceFolder
  /\ Len(svgIconsData) = MaxRecords
  /\ \E i, j \in 1..Len(svgIconsData) :
       /\ svgIconsData[i].Image = <<"/", "s", "v", "g", "_", "i", "c", "o", "n", "s", "/",
                                    "f", "/", "_", "a", "-", "b", ".", "s", "v", "g">>
       /\ svgIconsData[i].Path = BasePath \o <<"f", "/", "a", "-", "b", "/">>
       /\ svgIconsData[j].Image = <<"/", "s", "v", "g", "_", "i", "c", "o", "n", "s", "/",
                                    "G", "/", "a", "-", "b", ".", "s", "v", "g">>

(***************************************************************************)
(* The default description.                                                *)
(***************************************************************************)
\* the description the document of a record is to have
ClaimedDescription(record) ==
  IF record.Description = <<>>
  THEN <<"S", "V", "G", " ", "i", "c", "o", "n", " ", "f", "o", "r", " ">>
       \o formatIconName(ClaimedBareName(record.FileName))
  ELSE record.Description

DescribedAs(iconData) ==
  [Image |-> iconData.Image, Name |-> iconData.Name, Description |-> iconData.Description]

ClaimedDescribedAs(record) ==
  [Image |-> <<"/", "s", "v", "g", "_", "i", "c", "o", "n", "s", "/">>
             \o record.SourceFolder \o <<"/">> \o record.FileName,
   Name |-> formatIconName(ClaimedBareName(record.FileName)),
   Description |-> ClaimedDescription(record)]

\* C26: a record without a description is repaired, never rejected: its
\* document gets the default description 'SVG icon for <display name>', a
\* record with a non-empty description keeps it unchanged, and no record
\* makes the build fail or is missing from the output
MissingDescriptionRepaired ==
  LET source == FlatRecords(cluster)
  IN /\ buildPc # "fatal" /\ exitError = "none"
     /\ \A i \in 1..Len(svgIconsData) :
          /\ svgIconsData[i].Description # <<>>
          /\ svgIconsData[i].Description =
               DefaultDescriptionPrefix \o svgIconsData[i].Name
             \/ \E k \in 1..Len(source) :
                  /\ source[k].Description # <<>>
                  /\ svgIconsData[i].Description = source[k].Description
     /\ buildPc \in {"cluster", "file"} =>
          /\ Len(svgIconsData) <= Len(source)
          /\ \A i \in 1..Len(svgIconsData) :
               DescribedAs(svgIconsData[i]) = ClaimedDescribedAs(source[i])
     /\ buildPc = "returned" =>
          /\ Len(svgIconsData) = Len(source)
          /\ BagOfSeq([i \in 1..Len(svgIconsData) |-> DescribedAs(svgIconsData[i])])
               = BagOfSeq([i \in 1..Len(source) |-> ClaimedDescribedAs(source[i])])

\* a build has returned the documents of '_a-b.svg' with and without a
\* description
MissingDescriptionWitness ==
  /\ buildPc = "returned"
  /\ \E k \in 1..Len(FlatRecords(cluster)) : FlatRecords(cluster)[k].Description = <<>>
  /\ \E i, j \in 1..Len(svgIconsData) :
       /\ svgIconsData[i].Image = svgIconsData[j].Image
       /\ svgIconsData[i].Name = <<"A", " ", "B">>
       /\ svgIconsData[i].Description =
            <<"S", "V", "G", " ", "i", "c", "o", "n", " ", "f", "o", "r", " ", "A", " ", "B">>
       /\ svgIconsData[j].Description = <<"d">>

(***************************************************************************)
(* Failures of a run of RunSVGIconsOnly.                                   *)
(***************************************************************************)
\* C27: an unreadable or unparseable source structure is fatal:
\* generateSVGIconsData returns an error and no documents, and
\* RunSVGIconsOnly ends without writing the output file and without running
\* the stemming pass; in every run the order is generate, save, stem, and a
\* later step runs only if every earlier step succeeded
SourceFailureIsFatal ==
  /\ exitError \in {"unreadable", "unparseable"} =>
       /\ buildPc = "fatal"
       /\ svgIconsData = <<>>
       /\ ~outputFile.written
       /\ stemRuns = 0
  /\ buildPc = "fatal" <=> exitError # "none"
  /\ exitError \in {"cancelled", "save"} => ~outputFile.written /\ stemRuns = 0
  /\ outputFile.written =>
       /\ buildPc \in {"saved", "done", "fatal"}
       /\ exitError \in {"none", "stem"}
       /\ clusterIndex = Len(cluster) + 1
       /\ Len(outputFile.icons) = Len(FlatRecords(cluster))
       /\ \A i \in 1..Len(svgIconsData) : outputFile.icons[i].ID = svgIconsData[i].ID
  /\ stemRuns > 0 <=> buildPc = "done" \/ exitError = "stem"
  /\ stemRuns > 0 => outputFile.written
  /\ stemRuns <= 1
  /\ buildPc \in {"start", "cluster", "file", "returned"} =>
       ~outputFile.written /\ stemRuns = 0

\* a run over a cluster file with records that cannot be parsed has ended
SourceFailureWitness ==
  /\ buildPc = "fatal"
  /\ exitError = "unparseable"
  /\ Len(FlatRecords(cluster)) >= 2
  /\ svgIconsData = <<>>
  /\ ~outputFile.written

(***************************************************************************)
(* The order of the returned documents.                                    *)
(***************************************************************************)
\* the value of a byte of an id
ClaimedByteValue(c) ==
  IF c = "-" THEN 45
  ELSE IF c = "_" THEN 95
  ELSE IF c \in Range(Digits) THEN 47 + LetterIndex(Digits, c)
  ELSE IF c \in Range(UpperLetters) THEN 64 + LetterIndex(UpperLetters, c)
  ELSE 96 + LetterIndex(LowerLetters, c)

\* a <= b for ids
RECURSIVE ClaimedLessEq(_, _)
ClaimedLessEq(a, b) ==
  IF a = <<>> THEN TRUE
  ELSE IF b = <<>> THEN FALSE
  ELSE IF a[1] = b[1] THEN ClaimedLessEq(Tail(a), Tail(b))
  ELSE ClaimedByteValue(a[1]) < ClaimedByteValue(b[1])

\* the documents of the records, in the order of the source structure
BuiltDocuments(source) ==
  [i \in 1..Len(source) |-> IconDataOf(source[i].SourceFolder, source[i])]

\* the place of the i-th built document in the output: after the documents
\* with a smaller id and after the earlier ones with the same id
ClaimedPlace(built, i) ==
  1 + Cardinality({j \in 1..Len(built) :
                     \/ ~ClaimedLessEq(built[i].ID, built[j].ID)
                     \/ j < i /\ built[j].ID = built[i].ID})

\* C28: the document sequence the build returns is in ascending id order
\* (id[i] <= id[i+1] for every adjacent pair) and is a permutation of the
\* documents built from the records; it is a function of the source input
\* alone, so two builds over identical input return identical sequences
SortedOutput ==
  buildPc = "returned" =>
    LET built == BuiltDocuments(FlatRecords(cluster))
    IN /\ \A i \in 1..(Len(svgIconsData) - 1) :
            ClaimedLessEq(svgIconsData[i].ID, svgIconsData[i + 1].ID)
       /\ Len(svgIconsData) = Len(built)
       /\ BagOfSeq(svgIconsData) = BagOfSeq(built)
       /\ \A i \in 1..Len(built) : svgIconsData[ClaimedPlace(built, i)] = built[i]

\* a build has returned three documents in another order than it built
\* them, two of them with the same id
SortedOutputWitness ==
  /\ buildPc = "returned"
  /\ Len(svgIconsData) = 3
  /\ svgIconsData # BuiltDocuments(FlatRecords(cluster))
  /\ svgIconsData[1].ID # svgIconsData[2].ID
  /\ svgIconsData[2].ID = svgIconsData[3].ID
  /\ svgIconsData[2] # svgIconsData[3]

(***************************************************************************)
(* The query and the URL fragment.                                         *)
(***************************************************************************)
\* the query of a page loaded with the fragment hash
QueryAfterLoad(hash) == MountEffects(MountedState(hash)).query

\* C29: for every query q that is not empty after trimming, the fragment
\* updateUrlHash(q) writes restores exactly q when checkHashForSearch
\* parses it, on hashchange and on load; when the query becomes empty a
\* '#search...' fragment is removed; a fragment with an empty q does not
\* change the query
HashRoundTrip ==
  [][/\ query' # query /\ Trim(query') # <<>> =>
          /\ ~crashed'
          /\ HasPrefix(urlHash', <<"#", "s", "e", "a", "r", "c", "h", "?", "q", "=">>)
          /\ SearchParamOf(urlHash') = query'
          /\ QueryAfterLoad(urlHash') = query'
     /\ query' # query /\ Trim(query') = <<>> =>
          ~HasPrefix(urlHash', <<"#", "s", "e", "a", "r", "c", "h">>)
     /\ /\ urlHash' # urlHash
        /\ HasPrefix(urlHash', <<"#", "s", "e", "a", "r", "c", "h", "?", "q", "=">>)
        /\ SearchParamOf(urlHash') = <<>>
        => query' = query]_vars

\* the query '+e-acute' has been written to the fragment and the fragment
\* parses to it
HashRoundTripWitness ==
  /\ ~crashed
  /\ query = <<"+", "00E9">>
  /\ urlHash = <<"#", "s", "e", "a", "r", "c", "h", "?", "q", "=",
                 "%", "2", "B", "%", "C", "3", "%", "A", "9">>
  /\ SearchParamOf(urlHash) = query

(***************************************************************************)
(* The stemming pass.                                                      *)
(***************************************************************************)
NoDuplicateToken(tokens) ==
  \A i, j \in 1..Len(tokens) : tokens[i] = tokens[j] => i = j

\* the documents of a stemmed file: each has its tokens, without
\* duplicates, next to its text, and no tokens when it has no description
\* or an empty one
StemmedFile(icons) ==
  \A i \in 1..Len(icons) :
    /\ "Stemmed" \in DOMAIN icons[i]
    /\ NoDuplicateToken(icons[i].Stemmed.tokens)
    /\ "Description" \in DOMAIN icons[i] =>
         icons[i].Stemmed.originalText = icons[i].Description
    /\ "Description" \notin DOMAIN icons[i] \/ icons[i].Description = <<>> =>
         icons[i].Stemmed.tokens = <<>>

\* C30: running the whole-file stemming pass again on an unchanged,
\* already-stemmed document leaves its token sequence unchanged (the tokens
\* are overwritten or skipped, never concatenated); the tokens hold no
\* duplicate; no pass raises an error; an absent or empty field gives an
\* empty token sequence
StemmingIdempotent ==
  [][/\ exitError' = "none"
     /\ stemRuns' >= 1 =>
          /\ Len(outputFile'.icons) = Len(svgIconsData)
          /\ StemmedFile(outputFile'.icons)
     /\ stemRuns >= 1 => outputFile' = outputFile]_vars

\* the pass has run twice over a file with a document whose description
\* gives two tokens and a document without description
StemmingWitness ==
  /\ stemRuns = 2
  /\ exitError = "none"
  /\ Len(outputFile.icons) = 2
  /\ "Description" \in DOMAIN outputFile.icons[1]
  /\ outputFile.icons[1].Description =
       <<"T", "e", "s", "t", "i", "n", "g", ",", " ", "I", "c", "o", "n", "s">>
  /\ outputFile.icons[1].Stemmed.tokens = <<<<"t", "e", "s", "t">>, <<"i", "c", "o", "n">>>>
  /\ "Description" \notin DOMAIN outputFile.icons[2]
  /\ outputFile.icons[2].Stemmed.tokens = <<>>

(***************************************************************************)
(* The category selection.                                                 *)
(***************************************************************************)
\* C31: after any sequence of left-clicks, right-clicks, clear and 'View all
\* results' actions, activeCategory is 'all' exactly when selectedCategories
\* is empty, a single activeCategory X goes with selectedCategories = [X],
\* 'multi' goes with a non-empty selection, selectedCategories holds no
\* duplicate and never 'all', and getEffectiveCategories() equals
\* selectedCategories; the 'View all results' button, which would set
\* activeCategory alone, is never rendered
SelectionInvariant ==
  /\ activeCategory = "all" <=> selectedCategories = <<>>
  /\ activeCategory \notin {"all", "multi"} => selectedCategories = <<activeCategory>>
  /\ activeCategory = "multi" => selectedCategories # <<>>
  /\ \A i, j \in 1..Len(selectedCategories) :
       selectedCategories[i] = selectedCategories[j] => i = j
  /\ \A i \in 1..Len(selectedCategories) : selectedCategories[i] # "all"
  /\ getEffectiveCategories(activeCategory, selectedCategories) = selectedCategories
  /\ ~ViewAllVisible

\* one of two selected categories has been removed by a right-click, with
\* results shown
SelectionWitness ==
  /\ activeCategory = "multi"
  /\ Len(selectedCategories) = 1
  /\ ~loading
  /\ Len(results) > 0

(***************************************************************************)
(* The loading flags.                                                      *)
(***************************************************************************)
\* a request of the kind is in flight
InFlight(kind) == \E r \in BagToSet(inflight) : r.kind = kind

\* the "No results found" message is rendered
NoResultsVisible == Rendered /\ ~loading /\ Len(results) = 0

\* C32: loading is true in every state in which a page-1 fetch is in flight
\* and loadingMore in every state in which a load-more fetch is in flight,
\* also when fetches overlap; when no fetch is in flight both flags are
\* false; 'No results found' is not shown while a page-1 request is pending
LoadingTracksInFlight ==
  /\ InFlight("page1") => loading
  /\ InFlight("more") => loadingMore
  /\ inflight = EmptyBag => ~loading /\ ~loadingMore
  /\ InFlight("page1") => ~NoResultsVisible

(***************************************************************************)
(* Clearing the search.                                                    *)
(***************************************************************************)
\* what clearResults is said to leave
Cleared ==
  /\ query = <<>>
  /\ results = <<>>
  /\ allResults = <<>>
  /\ currentPage = 1
  /\ activeCategory = "all"
  /\ selectedCategories = <<>>
  /\ searchState.defined => searchState.query = <<>>

\* the step changes nothing but the record of the key event
NothingChanges ==
  UNCHANGED <<query, results, allResults, searchInfo, loading, loadingMore,
              activeCategory, selectedCategories, currentPage,
              availableCategories, timer, inflight, docs, urlHash, crashed,
              searchState>>

\* C33 as stated: the clear button, or Escape pressed while the query is
\* non-empty, leaves query = '', results and allResults empty, currentPage
\* = 1, activeCategory = 'all', selectedCategories empty and the shared
\* global query ''; Escape pressed while the query is empty changes nothing
ClearLeavesNothing ==
  [][/\ clearResults => Cleared'
     /\ handleKeyDown("Escape") /\ query # <<>> => Cleared'
     /\ handleKeyDown("Escape") /\ query = <<>> => NothingChanges]_vars

\* C33, amended: the same with the query non-empty after trimming; Escape
\* pressed while the query is empty or holds white space only changes
\* nothing
ClearLeavesNothingTrimmed ==
  [][/\ clearResults => Cleared'
     /\ handleKeyDown("Escape") /\ Trim(query) # <<>> => Cleared'
     /\ handleKeyDown("Escape") /\ Trim(query) = <<>> => NothingChanges]_vars

\* a key has been pressed, the query and the shared query are empty and
\* the selection is reset while the request of a category search that was
\* cleared is still in flight
ClearWitness ==
  /\ keyDown
  /\ Cleared
  /\ searchState.defined
  /\ \E r \in BagToSet(inflight) : r.body.hasFilter /\ r.body.q = <<"a">>

(***************************************************************************)
(* Cancellation of the build.                                              *)
(***************************************************************************)
\* the loop over the clusters is at its head, before a cluster
AtClusterBoundary == buildPc = "cluster" /\ clusterIndex <= Len(cluster)

====
